---- MODULE Spec2Model ----
(***************************************************************************)
(* Model of the AI orchestration core of the IESTP JVA chatbot backend     *)
(* (back-end/ai_manager.py): the query classifier, the usefulness judge,   *)
(* the Gemini rate limiter, the model chain runner and the                 *)
(* OpenRouter -> Gemini fallback of AIManager.generate_response.           *)
(*                                                                         *)
(* Python strings are TLA+ strings; Optional[str] is a string or None.     *)
(* Time is in whole seconds.                                               *)
(***************************************************************************)
EXTENDS Integers, Sequences, FiniteSets, TLC

(***************************************************************************)
(* Bounds of the model.                                                    *)
(***************************************************************************)
\* the clock stops advancing at MaxNow seconds
MaxNow == 900
\* no more than MaxThrottle throttling errors are injected
MaxThrottle == 6

(***************************************************************************)
(* Python values and string primitives.                                    *)
(***************************************************************************)
\* Python's None for an Optional[str]; no response text is equal to it.
None == "<None>"

\* bool(x) of an Optional[str]: None and "" are falsy.
Truthy(x) == x # None /\ x # ""

\* `p in s` for two strings.
Contains(s, p) ==
    \E i \in 1..(Len(s) - Len(p) + 1) : SubSeq(s, i, i + Len(p) - 1) = p

\* str.lower() of one character, for the alphabet of the texts used here.
LowerChar(c) ==
    CASE c = "A" -> "a" [] c = "B" -> "b" [] c = "C" -> "c" [] c = "D" -> "d"
      [] c = "E" -> "e" [] c = "F" -> "f" [] c = "G" -> "g" [] c = "H" -> "h"
      [] c = "I" -> "i" [] c = "J" -> "j" [] c = "K" -> "k" [] c = "L" -> "l"
      [] c = "M" -> "m" [] c = "N" -> "n" [] c = "O" -> "o" [] c = "P" -> "p"
      [] c = "Q" -> "q" [] c = "R" -> "r" [] c = "S" -> "s" [] c = "T" -> "t"
      [] c = "U" -> "u" [] c = "V" -> "v" [] c = "W" -> "w" [] c = "X" -> "x"
      [] c = "Y" -> "y" [] c = "Z" -> "z"
      [] c = "Á" -> "á" [] c = "É" -> "é" [] c = "Í" -> "í" [] c = "Ó" -> "ó"
      [] c = "Ú" -> "ú" [] c = "Ñ" -> "ñ" [] c = "Ü" -> "ü"
      [] OTHER -> c

\* str.lower()
RECURSIVE Lower(_)
Lower(s) ==
    IF Len(s) = 0 THEN ""
    ELSE LowerChar(SubSeq(s, 1, 1)) \o Lower(SubSeq(s, 2, Len(s)))

Digits == {"0", "1", "2", "3", "4", "5", "6", "7", "8", "9"}

\* re.search(r'\d{1,2}', s): some digit occurs in s.
HasDigit(s) == \E i \in 1..Len(s) : SubSeq(s, i, i) \in Digits

\* re.search(r's/\.|soles|\d+(\.\d+)?', s)
HasMoneyPattern(s) == Contains(s, "s/.") \/ Contains(s, "soles") \/ HasDigit(s)

Min(a, b) == IF a < b THEN a ELSE b

(***************************************************************************)
(* Configuration (config.py) and the keyword table.                        *)
(***************************************************************************)
OPENROUTER_MODELS ==
    << "meta-llama/llama-3.3-70b-instruct:free",
       "google/gemma-2-9b-it:free",
       "mistralai/mistral-7b-instruct:free" >>

GEMINI_MODELS == << "gemini-2.0-flash", "gemini-1.5-flash", "gemini-1.5-pro" >>

\* AIManager.GEMINI_COOLDOWN: seconds of cooldown after the first 429
GEMINI_COOLDOWN == 60

\* the cap of the backoff in _handle_gemini_error
MAX_BACKOFF == 600

\* characters of pdf_context sent to OpenRouter
CONTEXT_LIMIT == 200000

\* characters of web_context put in a prompt
WEB_LIMIT == 20000

\* turns of the history put in a prompt
HISTORY_TURNS == 2

\* QUERY_CLASSIFICATIONS, in insertion order
QUERY_CLASSIFICATIONS ==
    << [qtype |-> "matrícula",
        keywords |-> <<"matrícula", "matricula", "matricularme", "inscripción">>],
       [qtype |-> "traslado",
        keywords |-> <<"traslado", "trasladar", "cambiar de instituto">>],
       [qtype |-> "reserva", keywords |-> <<"reserva", "reservar">>],
       [qtype |-> "reincorporación",
        keywords |-> <<"reincorporación", "reincorporacion", "volver">>],
       [qtype |-> "cambio_turno",
        keywords |-> <<"cambio de turno", "turno", "horario">>],
       [qtype |-> "titulación",
        keywords |-> <<"titulación", "título", "bachiller", "titulado">>],
       [qtype |-> "costos",
        keywords |-> <<"costo", "precio", "pago", "cuánto", "tarifa">>],
       [qtype |-> "fechas",
        keywords |-> <<"fecha", "plazo", "cuándo", "cronograma">>],
       [qtype |-> "requisitos",
        keywords |-> <<"requisito", "documento", "necesito">>],
       [qtype |-> "vacantes",
        keywords |-> <<"vacante", "cupos", "disponibilidad">>],
       [qtype |-> "carreras",
        keywords |-> <<"carrera", "programa", "especialidad">>],
       [qtype |-> "certificados",
        keywords |-> <<"certificado", "constancia", "récord">>],
       [qtype |-> "becas",
        keywords |-> <<"beca", "becado", "descuento", "exoneración">>],
       [qtype |-> "saludo",
        keywords |-> <<"hola", "buenos días", "buenas tardes", "saludos">>],
       [qtype |-> "despedida",
        keywords |-> <<"gracias", "adiós", "chau", "hasta luego">>] >>

\* any(kw in s for kw in keywords)
AnyIn(keywords, s) == \E k \in 1..Len(keywords) : Contains(s, keywords[k])

\* classify_query without message.lower()
classify_query_case_sensitive(message) ==
    LET hits == { j \in 1..Len(QUERY_CLASSIFICATIONS) :
                    AnyIn(QUERY_CLASSIFICATIONS[j].keywords, message) }
    IN  IF hits = {} THEN "general"
        ELSE QUERY_CLASSIFICATIONS[CHOOSE j \in hits : \A k \in hits : j <= k].qtype

\* classify_query returning the last matching label of the table
classify_query_last(message) ==
    LET msg_lower == Lower(message)
        hits == { j \in 1..Len(QUERY_CLASSIFICATIONS) :
                    AnyIn(QUERY_CLASSIFICATIONS[j].keywords, msg_lower) }
    IN  IF hits = {} THEN "general"
        ELSE QUERY_CLASSIFICATIONS[CHOOSE j \in hits : \A k \in hits : j >= k].qtype

\* AIManager.classify_query: the first label, in table order, with a keyword
\* occurring in the lower-cased message; 'general' when there is none.
classify_query(message) ==
    LET msg_lower == Lower(message)
        hits == { j \in 1..Len(QUERY_CLASSIFICATIONS) :
                    AnyIn(QUERY_CLASSIFICATIONS[j].keywords, msg_lower) }
    IN  IF hits = {} THEN "general"
        ELSE QUERY_CLASSIFICATIONS[CHOOSE j \in hits : \A k \in hits : j <= k].qtype

(***************************************************************************)
(* The usefulness judge.                                                   *)
(***************************************************************************)
useless_phrases ==
    << "no tengo información", "no encuentro información",
       "no se menciona en los documentos", "lo siento",
       "no puedo responder", "no hay documentos",
       "contacta a la secretaría",
       "no está especificado", "no se proporciona", "no se encuentra",
       "no aparece en el texto", "no se detalla", "no cuento con la información",
       "no se indica", "no se menciona", "no dispongo de información" >>

months ==
    << "enero", "febrero", "marzo", "abril", "mayo", "junio", "julio", "agosto",
       "septiembre", "octubre", "noviembre", "diciembre" >>

\* a length gate that also rejects a response of exactly 50 characters
TooShort_inclusive(response) == ~Truthy(response) \/ Len(response) <= 50

\* no length gate
TooShort_none(response) == ~Truthy(response)

\* `not response or len(response) < 50`
TooShort(response) == ~Truthy(response) \/ Len(response) < 50

\* any(p in low for p in useless_phrases)
HasUselessPhrase(low) == AnyIn(useless_phrases, low)

\* a contact check that knows the e-mail only
HasContact_email_only(low) == Contains(low, "correo")

\* "correo" in low or "teléfono" in low or "presencialmente" in low or "dirección" in low
HasContact(low) ==
    Contains(low, "correo") \/ Contains(low, "teléfono")
        \/ Contains(low, "presencialmente") \/ Contains(low, "dirección")

\* a money rule applied to the label 'costos' only
MoneyRuleRejects_costos_only(low, qtype) ==
    /\ qtype \in {"costos"}
    /\ Contains(low, "costo") \/ Contains(low, "pago") \/ Contains(low, "precio")
    /\ ~HasMoneyPattern(low)

\* the check by type of query for costs: a cost word and no figure
MoneyRuleRejects(low, qtype) ==
    /\ qtype \in {"costos", "matrícula", "titulación"}
    /\ Contains(low, "costo") \/ Contains(low, "pago") \/ Contains(low, "precio")
    /\ ~HasMoneyPattern(low)

\* a date rule that looks for digits only
DateRuleRejects_digits_only(low, qtype) ==
    /\ qtype \in {"fechas", "cronograma"}
    /\ ~HasDigit(low)

\* a date rule that never rejects
DateRuleRejects_never(low, qtype) == FALSE

\* the check for dates: neither a number nor a month
DateRuleRejects(low, qtype) ==
    /\ qtype \in {"fechas", "cronograma"}
    /\ ~(HasDigit(low) \/ AnyIn(months, low))

\* AIManager._is_useful_response
IsUsefulResponse(response, qtype) ==
    IF TooShort(response) THEN FALSE
    ELSE LET low == Lower(response) IN
         IF HasUselessPhrase(low) THEN HasContact(low)
         ELSE IF MoneyRuleRejects(low, qtype) THEN FALSE
         ELSE IF DateRuleRejects(low, qtype) THEN FALSE
         ELSE TRUE

(***************************************************************************)
(* Inputs of the model: user messages, response texts and call outcomes.   *)
(***************************************************************************)
\* user messages of a request (classified: matrícula, fechas, general)
Messages ==
    { "¿Cuánto cuesta la MATRÍCULA?",
      "cuándo vence el plazo",
      "xyz" }

\* texts a model may answer with
Responses ==
    { "ok",
      "No encuentro esa información específica en los documentos.",
      "Lo siento, no tengo información; escribe al correo mesa@iestpjva.edu.pe",
      "El costo de la matrícula varía según el programa de estudios elegido.",
      "El costo de la matrícula es S/. 450.00 y el plazo vence el 15 de marzo." }

\* what one HTTP call to OpenRouter can come back with
OpenRouterOutcomes ==
    { [kind |-> "network_error", status |-> 0, content |-> None],
      [kind |-> "http", status |-> 401, content |-> None],
      [kind |-> "http", status |-> 429, content |-> None],
      [kind |-> "http", status |-> 500, content |-> None],
      [kind |-> "malformed", status |-> 200, content |-> None],
      [kind |-> "http", status |-> 200, content |-> None],
      [kind |-> "http", status |-> 200, content |-> ""] }
    \cup { [kind |-> "http", status |-> 200, content |-> r] : r \in Responses }

\* messages of the exceptions the Gemini SDK raises
GeminiErrors ==
    { "429 Too Many Requests",
      "Resource exhausted",
      "500 Internal error encountered",
      "404 models/gemini is not found" }

\* what one generate_content call can come back with
GeminiOutcomes ==
    { [kind |-> "exception", error |-> e, text |-> None] : e \in GeminiErrors }
    \cup { [kind |-> "no_text", error |-> "", text |-> None],
           [kind |-> "text", error |-> "", text |-> ""] }
    \cup { [kind |-> k, error |-> "", text |-> r] : k \in {"text", "parts"}, r \in Responses }

\* 2 ** k copies of s, then n copies by halving
RECURSIVE Rep(_, _)
Rep(s, n) ==
    IF n = 0 THEN ""
    ELSE IF n % 2 = 0 THEN LET h == Rep(s, n \div 2) IN h \o h
    ELSE s \o Rep(s, n - 1)

\* the document context of the requests of the orchestrator
PdfContexts == { "REGLAMENTO 2025. Derecho de examen: S/. 30.00 en caja." }

\* document contexts below, at and above the budget of OpenRouter
LongPdfContexts ==
    { "REGLAMENTO 2025. Derecho de examen: S/. 30.00 en caja.",
      Rep("a", 199995) \o "bcdef",
      Rep("a", 199998) \o "bcdef" }

\* conversation_history=None
NoHistory == [present |-> FALSE, turns |-> <<>>]

\* a conversation_history list
HistoryOf(turns) == [present |-> TRUE, turns |-> turns]

\* the web context and the history of the requests of the orchestrator
WebContexts == { "IESTP JVA - Admision 2025 - Contacto" }
Histories == { HistoryOf(<<"user: hola", "assistant: buenos dias", "user: gracias">>) }

\* web contexts below, at and above the budget of the prompt
LongWebContexts ==
    { "IESTP JVA - Admision 2025 - Contacto",
      Rep("w", 19995) \o "vxyz!",
      Rep("w", 19998) \o "vxyz!" }

\* no history, an empty one, and histories of one, two and three turns
PromptHistories ==
    { NoHistory,
      HistoryOf(<<>>),
      HistoryOf(<<"user: hola">>),
      HistoryOf(<<"user: hola", "assistant: buenos dias">>),
      HistoryOf(<<"user: hola", "assistant: buenos dias", "user: gracias">>) }

(***************************************************************************)
(* The chat endpoint: JSON values of the request body and sanitize_input.  *)
(***************************************************************************)
\* MAX_MESSAGE_LENGTH
MAX_MESSAGE_LENGTH == 2000

\* a JSON value of the request body: a missing key, a string or a number
JAbsent == [type |-> "absent", s |-> "", n |-> 0]
JStr(s) == [type |-> "str", s |-> s, n |-> 0]
JInt(n) == [type |-> "int", s |-> "", n |-> n]

\* the truth value Python gives to data.get(key)
JTruthy(j) == (j.type = "int" /\ j.n # 0) \/ (j.type = "str" /\ j.s # "")

\* the value of a decimal digit
DigitValue(c) ==
    CASE c = "0" -> 0 [] c = "1" -> 1 [] c = "2" -> 2 [] c = "3" -> 3 [] c = "4" -> 4
      [] c = "5" -> 5 [] c = "6" -> 6 [] c = "7" -> 7 [] c = "8" -> 8 [] c = "9" -> 9

\* the number written by a string of digits
RECURSIVE DigitsValue(_)
DigitsValue(s) ==
    IF s = "" THEN 0
    ELSE 10 * DigitsValue(SubSeq(s, 1, Len(s) - 1)) + DigitValue(SubSeq(s, Len(s), Len(s)))

\* int(x): the number, or ok = FALSE where Python raises ValueError
IntOf(j) ==
    IF j.type = "int" THEN [ok |-> TRUE, n |-> j.n]
    ELSE IF j.s # "" /\ \A i \in 1..Len(j.s) : SubSeq(j.s, i, i) \in Digits
    THEN [ok |-> TRUE, n |-> DigitsValue(j.s)]
    ELSE [ok |-> FALSE, n |-> 0]

\* html.escape of one character
EscapeChar(c) ==
    CASE c = "&" -> "&amp;"
      [] c = "<" -> "&lt;"
      [] c = ">" -> "&gt;"
      [] c = "\"" -> "&quot;"
      [] c = "'" -> "&#x27;"
      [] OTHER -> c

\* html.escape(text)
RECURSIVE HtmlEscape(_)
HtmlEscape(s) ==
    IF Len(s) = 0 THEN ""
    ELSE IF Len(s) = 1 THEN EscapeChar(s)
    ELSE LET h == Len(s) \div 2
         IN  HtmlEscape(SubSeq(s, 1, h)) \o HtmlEscape(SubSeq(s, h + 1, Len(s)))

\* the control characters sanitize_input removes; of [\x00-\x08\x0b\x0c
\* \x0e-\x1f\x7f] the form feed is the one a string of the model can hold
ControlChars == {"\f"}

\* re.sub(r'[\x00-\x08\x0b\x0c\x0e-\x1f\x7f]', '', sanitized)
RECURSIVE RemoveControl(_)
RemoveControl(s) ==
    IF Len(s) = 0 THEN ""
    ELSE IF Len(s) = 1 THEN (IF s \in ControlChars THEN "" ELSE s)
    ELSE LET h == Len(s) \div 2
         IN  RemoveControl(SubSeq(s, 1, h)) \o RemoveControl(SubSeq(s, h + 1, Len(s)))

\* the characters str.strip() removes at both ends
Whitespace == {" ", "\t", "\n", "\r", "\f"}

\* s.strip()
Strip(s) ==
    LET kept == {i \in 1..Len(s) : SubSeq(s, i, i) \notin Whitespace}
    IN  IF kept = {} THEN ""
        ELSE SubSeq(s, CHOOSE i \in kept : \A j \in kept : i <= j,
                       CHOOSE i \in kept : \A j \in kept : i >= j)

\* app.sanitize_input on a string
SanitizeInput(text) == Strip(RemoveControl(HtmlEscape(text)))

\* the strings sent as "message"
RawMessages ==
    { " xyz\f ",
      "<b>plazo</b>",
      " \t\n",
      Rep("a", 2001) }

\* sanitize_input on the messages of the model, evaluated once
Sanitized == [r \in RawMessages |-> SanitizeInput(r)]

\* the messages that reach generate_response through the endpoint
ChatMessages ==
    { Sanitized[r] : r \in {x \in RawMessages :
                              Sanitized[x] # "" /\ Len(Sanitized[x]) <= MAX_MESSAGE_LENGTH} }

\* the values sent as "message"
MessageValues == {JAbsent, JInt(5)} \cup { JStr(r) : r \in RawMessages }

\* the values sent as "row_number"
RowNumberValues == {JAbsent, JInt(0), JInt(3), JInt(-1), JStr("3"), JStr("abc")}

\* the values sent as "history": none, a string, a list of turns
HistoryValues ==
    { [type |-> "absent", turns |-> <<>>],
      [type |-> "str", turns |-> <<>>],
      [type |-> "list", turns |-> <<"user: hola">>] }

\* a request without a JSON body: request.get_json() is None
NoBody ==
    [body |-> FALSE, json |-> "none", items |-> <<>>, message |-> JAbsent,
     row_number |-> JAbsent, history |-> [type |-> "absent", turns |-> <<>>]]

\* a request whose JSON body is an array of strings: request.get_json() is
\* a list
ArrayBody(items) ==
    [body |-> items # <<>>, json |-> "array", items |-> items, message |-> JAbsent,
     row_number |-> JAbsent, history |-> [type |-> "absent", turns |-> <<>>]]

\* the arrays sent as body
ArrayBodies == { ArrayBody(<<"message">>), ArrayBody(<<"hola">>) }

\* `'message' in data`: a key of the object, an element of the array
HasMessage(data) ==
    IF data.json = "array"
    THEN \E i \in 1..Len(data.items) : data.items[i] = "message"
    ELSE data.message.type # "absent"

\* a request whose JSON body is an object
ObjectBody(message, row_number, history) ==
    [body |-> TRUE, json |-> "object", items |-> <<>>, message |-> message,
     row_number |-> row_number, history |-> history]

\* request.get_json(): no body; an array; each value of "message"; the
\* messages that pass validation with each value of "row_number"; each value
\* of "history"
ChatBodies ==
    {NoBody}
    \cup ArrayBodies
    \cup { ObjectBody(m, JAbsent, [type |-> "absent", turns |-> <<>>]) :
              m \in MessageValues }
    \cup { ObjectBody(JStr(m), r, [type |-> "absent", turns |-> <<>>]) :
              m \in {" xyz\f ", "<b>plazo</b>"}, r \in RowNumberValues }
    \cup { ObjectBody(JStr(" xyz\f "), JInt(3), h) : h \in HistoryValues }

\* what log_consultation returns: the row it wrote, 0 when it failed
LogResults == {0, 7}

\* the message of the endpoint when generate_response returned None
FallbackMessage == "Lo siento, estoy teniendo dificultades técnicas para procesar tu consulta en este momento. Por favor, intenta nuevamente en unos segundos."

\* seconds by which the clock advances in one step
TickSteps == {60, 600}

(***************************************************************************)
(* State.                                                                  *)
(***************************************************************************)
VARIABLES
    OPENROUTER_API_KEY,      \* config.OPENROUTER_API_KEY ("" when not set)
    GEMINI_API_KEY,          \* config.GEMINI_API_KEY ("" when not set)
    gemini_cooldown_until,   \* self.gemini_cooldown_until
    gemini_consecutive_429,  \* self.gemini_consecutive_429
    now,                     \* time.time()
    pc,                      \* position of the request in generate_response
    user_message,            \* argument of the request in progress
    pdf_context,             \* argument pdf_context of the request in progress
    context_limited,         \* local context_limited
    web_context,             \* argument web_context of the request in progress
    conversation_history,    \* argument conversation_history of the request
    query_type,              \* local query_type
    model_index,             \* position of the for loop of _run_model_chain
    or_response,             \* local or_response
    gm_response,             \* local gm_response
    result,                  \* value returned by generate_response
    raised,                  \* an exception left generate_response
    gate,                    \* what _can_call_gemini returned in this request
    calls,                   \* provider calls of this request, in order
    last_outcome,            \* how the last provider call of this request ended
    last_429_at,             \* the clock at the last throttling error handled
    last_error,              \* the kind of failure of the last provider call
    throttled_total,         \* throttling errors handled since the manager was created
    cls,                     \* one call of classify_query: message and label
    judge,                   \* one call of _is_useful_response
    chat,                    \* one request to /api/chat
    race,                    \* the threads inside _handle_gemini_error
    sheets,                  \* the GoogleSheetsManager and the spreadsheet
    drive,                   \* the GoogleDriveManager, its cache file and the folder
    scraper                  \* the WebScraper and its cache file

limiter == <<gemini_cooldown_until, gemini_consecutive_429>>
config == <<OPENROUTER_API_KEY, GEMINI_API_KEY>>
request == <<pc, user_message, pdf_context, context_limited, web_context,
                   conversation_history, query_type, model_index,
             or_response, gm_response, result, raised, gate, calls, last_outcome>>
observed == <<last_429_at, last_error, throttled_total>>
manager == <<config, limiter, now, request, observed>>
services == <<sheets, drive, scraper>>
vars == <<manager, cls, judge, chat, race, services>>

(***************************************************************************)
(* The rate limiter.                                                       *)
(***************************************************************************)
\* _can_call_gemini with `now <= self.gemini_cooldown_until`
CanCallGemini_inclusive ==
    IF GEMINI_API_KEY = "" THEN FALSE
    ELSE IF now <= gemini_cooldown_until THEN FALSE
    ELSE TRUE

\* _can_call_gemini without the check of the key
CanCallGemini_nokey == ~(now < gemini_cooldown_until)

\* _can_call_gemini without the check of the cooldown
CanCallGemini_no_cooldown == GEMINI_API_KEY # ""

\* AIManager._can_call_gemini
CanCallGemini ==
    IF GEMINI_API_KEY = "" THEN FALSE
    ELSE IF now < gemini_cooldown_until THEN FALSE
    ELSE TRUE

\* "429" in error_str or "Resource exhausted" in error_str
IsThrottling(error_str) ==
    Contains(error_str, "429") \/ Contains(error_str, "Resource exhausted")

\* a backoff that grows linearly
Backoff_linear(n) == Min(GEMINI_COOLDOWN * n, MAX_BACKOFF)

\* a backoff that shrinks with every error
Backoff_shrinking(n) == MAX_BACKOFF \div (2 ^ (n - 1))

\* a backoff without the cap
Backoff_uncapped(n) == GEMINI_COOLDOWN * (2 ^ (n - 1))

\* backoff = min(GEMINI_COOLDOWN * (2 ** (n - 1)), 600)
Backoff(n) == Min(GEMINI_COOLDOWN * (2 ^ (n - 1)), MAX_BACKOFF)

\* a handler that takes every error for a throttling error
HandleGeminiError_always(error_str) ==
    [count |-> gemini_consecutive_429 + 1,
     until |-> now + Backoff(gemini_consecutive_429 + 1)]

\* a handler that resets the counter on an error that is no throttling
HandleGeminiError_reset(error_str) ==
    IF IsThrottling(error_str)
    THEN [count |-> gemini_consecutive_429 + 1,
          until |-> now + Backoff(gemini_consecutive_429 + 1)]
    ELSE [count |-> 0, until |-> gemini_cooldown_until]

\* AIManager._handle_gemini_error: the limiter state it leaves
HandleGeminiError(error_str) ==
    IF IsThrottling(error_str)
    THEN [count |-> gemini_consecutive_429 + 1,
          until |-> now + Backoff(gemini_consecutive_429 + 1)]
    ELSE [count |-> gemini_consecutive_429, until |-> gemini_cooldown_until]

(***************************************************************************)
(* The provider calls: the value returned and whether an exception         *)
(* leaves the function.                                                    *)
(***************************************************************************)
\* _call_openrouter without the try/except
CallOpenRouter_uncaught(o) ==
    IF o.kind \in {"network_error", "malformed"}
    THEN [response |-> None, escaped |-> TRUE]
    ELSE IF o.status = 200
    THEN [response |-> o.content, escaped |-> FALSE]
    ELSE [response |-> None, escaped |-> FALSE]

\* AIManager._call_openrouter
CallOpenRouter(o) ==
    IF o.kind \in {"network_error", "malformed"}
    THEN [response |-> None, escaped |-> FALSE]          \* except Exception
    ELSE IF o.status = 200
    THEN [response |-> o.content, escaped |-> FALSE]
    ELSE [response |-> None, escaped |-> FALSE]

\* _call_gemini re-raising a throttling error after handling it
CallGemini_throttle_raises(o) ==
    IF o.kind = "exception"
    THEN [response |-> None, escaped |-> IsThrottling(o.error), handled |-> TRUE]
    ELSE IF o.kind \in {"text", "parts"}
    THEN [response |-> o.text, escaped |-> FALSE, handled |-> FALSE]
    ELSE [response |-> None, escaped |-> FALSE, handled |-> FALSE]

\* AIManager._call_gemini
CallGemini(o) ==
    IF o.kind = "exception"
    THEN [response |-> None, escaped |-> FALSE, handled |-> TRUE]
    ELSE IF o.kind \in {"text", "parts"}
    THEN [response |-> o.text, escaped |-> FALSE, handled |-> FALSE]
    ELSE [response |-> None, escaped |-> FALSE, handled |-> FALSE]

\* the labels classify_query can return
Labels ==
    { QUERY_CLASSIFICATIONS[j].qtype : j \in 1..Len(QUERY_CLASSIFICATIONS) }
        \cup {"general"}

\* classify_query on the messages of the model, evaluated once
QueryTypeOf == [m \in Messages \cup ChatMessages |-> classify_query(m)]

\* _is_useful_response on the values a call can return, evaluated once
Useful == [r \in Responses \cup {None, ""}, q \in Labels |-> IsUsefulResponse(r, q)]

\* a loop body that returns any response, useful or not
ChainStep_any(response, qtype) == IF Truthy(response) THEN response ELSE None

\* a loop body that judges every response with the label 'general'
ChainStep_general(response, qtype) ==
    IF Truthy(response) /\ Useful[response, "general"] THEN response ELSE None

\* a loop body that never returns from the loop
ChainStep_never(response, qtype) == None

\* the body of the for loop of _run_model_chain after the call returned:
\* the response the chain returns at this model, or None to go on
ChainStep(response, qtype) ==
    IF Truthy(response) /\ Useful[response, qtype] THEN response ELSE None

(***************************************************************************)
(* Initial state: a fresh AIManager, no request yet.                       *)
(***************************************************************************)
ManagerInit ==
    /\ OPENROUTER_API_KEY \in {"", "sk-or-key"}
    /\ GEMINI_API_KEY \in {"", "AIza-key"}
    /\ gemini_cooldown_until = 0
    /\ gemini_consecutive_429 = 0
    /\ now = 0
    /\ pc = "idle"
    /\ user_message = ""
    /\ pdf_context = ""
    /\ context_limited = ""
    /\ web_context = ""
    /\ conversation_history = NoHistory
    /\ query_type = "general"
    /\ model_index = 1
    /\ or_response = None
    /\ gm_response = None
    /\ result = None
    /\ raised = FALSE
    /\ gate = "not_asked"
    /\ calls = <<>>
    /\ last_outcome = "none"
    /\ last_429_at = 0
    /\ last_error = "none"
    /\ throttled_total = 0

\* no call of classify_query under way
ClsIdle == [pc |-> "idle", message |-> "", label |-> None]

\* no call of _is_useful_response under way
JudgeIdle == [pc |-> "idle", response |-> None, qtype |-> "general", verdict |-> FALSE]

\* the threads of the server that serve requests at the same time
Threads == {1, 2}

\* no thread inside _handle_gemini_error
RaceIdle ==
    [pc |-> [t \in Threads |-> "idle"], loaded |-> [t \in Threads |-> 0],
     backoff |-> [t \in Threads |-> 0], overlapped |-> FALSE]

\* no request to /api/chat yet
ChatIdle ==
    [pc |-> "idle", auth |-> FALSE, data |-> NoBody, generated |-> FALSE, code |-> 0,
     error |-> "", response |-> None, row_number |-> 0, sheets |-> <<>>]

(***************************************************************************)
(* The spreadsheet of consultations (google_sheets.py).                    *)
(***************************************************************************)
\* rows of the spreadsheet in the model, the header row included
MaxRows == 4

\* the clock of the spreadsheet model, in seconds
MaxSheetClock == 80

\* find_recent_duplicate(user_query, time_window_seconds=60)
DUPLICATE_WINDOW == 60

\* user_query[:1000]
QUERY_LIMIT == 1000

\* bot_response[:50000]
RESPONSE_LIMIT == 50000

\* a row of the spreadsheet: columns A and B (date and time, kept as the
\* second they name; -1 where they hold no date), C to F, and the feedback
\* columns G to I
SheetRow(stamp, query, response, qtype, status, feedback, comment, id) ==
    [stamp |-> stamp, query |-> query, response |-> response, qtype |-> qtype,
     status |-> status, feedback |-> feedback, comment |-> comment, id |-> id]

\* the headers _ensure_headers writes in A1:I1
HeaderRow ==
    SheetRow(-1, "Consulta del Usuario", "Respuesta del Bot", "Tipo de Consulta",
             "Estado", "Feedback", "Comentario Feedback", "ID Mensaje")

\* the queries logged: two that differ in case and blanks only, and another
SheetQueries == {"horario", " HORARIO ", "costos"}

\* the responses logged
SheetResponses == {"Respuesta A"}

\* user_query[:1000]
QueryLimited(q) == SubSeq(q, 1, Min(Len(q), QUERY_LIMIT))

\* bot_response[:50000]
ResponseLimited(r) == SubSeq(r, 1, Min(Len(r), RESPONSE_LIMIT))

\* x.strip().lower() on the texts column C can hold, evaluated once
NormalQuery ==
    [x \in SheetQueries \cup {QueryLimited(q) : q \in SheetQueries}
             \cup {HeaderRow.query} |-> Lower(Strip(x))]

\* the decimal digits, by value
DigitText == <<"0", "1", "2", "3", "4", "5", "6", "7", "8", "9">>

\* str(n) for n >= 0
RECURSIVE DecimalText(_)
DecimalText(n) ==
    IF n < 10 THEN DigitText[n + 1]
    ELSE DecimalText(n \div 10) \o DigitText[(n % 10) + 1]

\* the updatedRange the append call of the API answers for row n
UpdatedRange(n) == "Hoja 1!A" \o DecimalText(n) \o ":I" \o DecimalText(n)

\* re.search(r'!A(\d+):', updated_range): int(match.group(1)), 0 without match
RowOfRange(range) ==
    LET hits == { h \in (1..Len(range)) \X (1..Len(range)) :
                    /\ h[1] + 2 <= h[2]
                    /\ SubSeq(range, h[1], h[1] + 1) = "!A"
                    /\ SubSeq(range, h[2], h[2]) = ":"
                    /\ \A k \in (h[1] + 2)..(h[2] - 1) : SubSeq(range, k, k) \in Digits }
    IN  IF hits = {} THEN 0
        ELSE LET h == CHOOSE x \in hits : \A y \in hits : x[1] <= y[1]
             IN  DigitsValue(SubSeq(range, h[1] + 2, h[2] - 1))

\* the row number log_consultation reads from the answer of the append that
\* wrote row n, evaluated once
AppendedRow == [n \in 1..(MaxRows + 2) |-> RowOfRange(UpdatedRange(n))]

\* the loop of find_recent_duplicate from row i upwards: the number of the
\* first row met with the same query, 0 at the first row older than the
\* cutoff or when the rows are exhausted; a row without a date is skipped
RECURSIVE ScanRows(_, _, _, _)
ScanRows(rows, i, cutoff, q) ==
    IF i < 2 THEN 0
    ELSE IF rows[i].stamp < 0 THEN ScanRows(rows, i - 1, cutoff, q)
    ELSE IF rows[i].stamp < cutoff THEN 0
    ELSE IF NormalQuery[rows[i].query] = NormalQuery[QueryLimited(q)] THEN i
    ELSE ScanRows(rows, i - 1, cutoff, q)

\* GoogleSheetsManager.find_recent_duplicate; read_ok: the read of A:F
\* answered
FindRecentDuplicate(rows, clock, q, read_ok) ==
    IF ~read_ok THEN 0
    ELSE IF Len(rows) <= 1 THEN 0
    ELSE ScanRows(rows, Len(rows), clock - DUPLICATE_WINDOW, q)

\* an update of the whole row A:I, the feedback columns emptied
UpdatedRows_whole_row(rows, n, clock, q, r, qtype, status) ==
    [rows EXCEPT ![n] = SheetRow(clock, QueryLimited(q), ResponseLimited(r), qtype,
                                 status, "", "", "")]

\* values().update(range=A{n}:F{n}) with the row update_consultation builds
UpdatedRows(rows, n, clock, q, r, qtype, status) ==
    [rows EXCEPT ![n] = SheetRow(clock, QueryLimited(q), ResponseLimited(r), qtype,
                                 status, rows[n].feedback, rows[n].comment, rows[n].id)]

\* the last call was no call of update_consultation
NoRow == -2

\* a GoogleSheetsManager without credentials and an empty spreadsheet; updating
\* is the row_number of the last call when it was one of update_consultation
SheetsIdle ==
    [service |-> FALSE, clock |-> 0, rows |-> <<>>, updating |-> NoRow, returned |-> 0]

(***************************************************************************)
(* The document cache (google_drive.py).                                   *)
(***************************************************************************)
\* the clock of the document cache model, in seconds
MaxDriveClock == 2700

\* config.CACHE_REFRESH_INTERVAL
CACHE_REFRESH_INTERVAL == 1800

\* max_retries of list_pdf_files and download_pdf
MAX_RETRIES == 3

\* the file of the folder
FileIds == {"f1"}

\* the versions of the file: modifiedTime and the text PdfReader extracts
FileVersions == {"2025-01-10T08:00:00Z", "2025-03-02T09:30:00Z"}
RemoteText ==
    [m \in FileVersions |->
        IF m = "2025-01-10T08:00:00Z" THEN "Matricula: del 1 al 15 de marzo."
        ELSE "Matricula: del 1 al 20 de marzo."]

\* the text of the PDF for a caller that gives the version, or none
PdfText(modified_time) ==
    IF modified_time \in FileVersions THEN RemoteText[modified_time]
    ELSE "Matricula: consultar en secretaria."

\* an entry of files().list
DriveFile(id, name, modifiedTime) ==
    [id |-> id, name |-> name, modifiedTime |-> modifiedTime]

\* no entry of pdf_cache for a file
NoEntry == [cached |-> FALSE, text |-> "", modified_time |-> None, cached_at |-> 0]

\* pdf_cache[file_id] = {'text', 'modified_time', 'cached_at', 'name'}
CacheEntry(text, modified_time, cached_at) ==
    [cached |-> TRUE, text |-> text, modified_time |-> modified_time,
     cached_at |-> cached_at]

\* no cache file on disk
NoDisk ==
    [exists |-> FALSE, pdfs |-> [f \in FileIds |-> NoEntry], all_text |-> "",
     all_cached_at |-> 0]

\* no call of the manager yet
NoDriveCall ==
    [op |-> "none", force |-> FALSE, id |-> "", modified |-> None, calls |-> 0,
     ok |-> FALSE, failed |-> FALSE, returned |-> None]

\* how the calls of files().list end: all attempts fail (ok_at = 0), or the
\* attempt ok_at answers the files
ListOutcomes ==
    {[ok_at |-> 0, files |-> <<>>]}
    \cup { [ok_at |-> k, files |-> fs] :
              k \in {1},
              fs \in {<<>>} \cup { <<DriveFile("f1", "reglamento.pdf", m)>> : m \in FileVersions } }

\* how the downloads of a file end: all attempts fail (ok_at = 0), or the
\* attempt ok_at gives the PDF
DownloadOutcomes == {0, 1, MAX_RETRIES}

\* a GoogleDriveManager without credentials, cache file or call
DriveIdle ==
    [service |-> FALSE, pdf_cache |-> [f \in FileIds |-> NoEntry],
     files_list_cache |-> <<>>, files_list_cached_at |-> 0,
     all_documents_text |-> "", all_documents_cached_at |-> 0,
     disk |-> NoDisk, clock |-> 0, last |-> NoDriveCall]

\* the block of one document in the combined text
DocumentBlock(name, text) ==
    "\n" \o Rep("=", 60) \o "\nDOCUMENTO: " \o name \o "\n" \o Rep("=", 60) \o "\n" \o text

\* the name of the file
FileNames == {"reglamento.pdf"}

\* DocumentBlock on the names and texts of the folder
DocumentBlocks ==
    [name \in FileNames, text \in {PdfText(m) : m \in FileVersions \cup {None}} |->
        DocumentBlock(name, text)]

\* "\n\n".join(all_texts)
RECURSIVE JoinTexts(_)
JoinTexts(texts) ==
    IF texts = <<>> THEN ""
    ELSE IF Len(texts) = 1 THEN texts[1]
    ELSE texts[1] \o "\n\n" \o JoinTexts(SubSeq(texts, 2, Len(texts)))

\* a download_pdf that gives up the old text after the failures
DownloadPdf_no_fallback(d, file_id, modified_time, creds, ok_at) ==
    IF ~d.service /\ ~creds
    THEN [text |-> None, pdf_cache |-> d.pdf_cache, service |-> FALSE, calls |-> 0,
          ok |-> FALSE]
    ELSE LET cached == d.pdf_cache[file_id] IN
         IF cached.cached /\ Truthy(modified_time) /\ cached.modified_time = modified_time
         THEN [text |-> cached.text, pdf_cache |-> d.pdf_cache, service |-> TRUE,
               calls |-> 0, ok |-> TRUE]
         ELSE IF ok_at > 0
         THEN [text |-> PdfText(modified_time),
               pdf_cache |-> [d.pdf_cache EXCEPT ![file_id] =
                                 CacheEntry(PdfText(modified_time), modified_time, d.clock)],
               service |-> TRUE, calls |-> ok_at, ok |-> TRUE]
         ELSE [text |-> None,
               pdf_cache |-> d.pdf_cache, service |-> TRUE, calls |-> MAX_RETRIES,
               ok |-> FALSE]

\* GoogleDriveManager.download_pdf on the manager d: the text returned, the
\* cache and the service it leaves, the download attempts made; creds: what
\* get_credentials gives to reconnect; ok_at: the attempt that succeeds
DownloadPdf(d, file_id, modified_time, creds, ok_at) ==
    IF ~d.service /\ ~creds
    THEN [text |-> None, pdf_cache |-> d.pdf_cache, service |-> FALSE, calls |-> 0,
          ok |-> FALSE]
    ELSE LET cached == d.pdf_cache[file_id] IN
         IF cached.cached /\ Truthy(modified_time) /\ cached.modified_time = modified_time
         THEN [text |-> cached.text, pdf_cache |-> d.pdf_cache, service |-> TRUE,
               calls |-> 0, ok |-> TRUE]
         ELSE IF ok_at > 0
         THEN [text |-> PdfText(modified_time),
               pdf_cache |-> [d.pdf_cache EXCEPT ![file_id] =
                                 CacheEntry(PdfText(modified_time), modified_time, d.clock)],
               service |-> TRUE, calls |-> ok_at, ok |-> TRUE]
         ELSE [text |-> IF cached.cached THEN cached.text ELSE None,
               pdf_cache |-> d.pdf_cache, service |-> TRUE, calls |-> MAX_RETRIES,
               ok |-> FALSE]

\* GoogleDriveManager.list_pdf_files on the manager d: the files returned,
\* the list cache and the service it leaves, the list attempts made
ListPdfFiles(d, force_refresh, creds, lo) ==
    IF ~d.service /\ ~creds
    THEN [files |-> <<>>, files_list_cache |-> d.files_list_cache,
          files_list_cached_at |-> d.files_list_cached_at, service |-> FALSE,
          calls |-> 0, failed |-> FALSE]
    ELSE IF /\ ~force_refresh
            /\ d.files_list_cache # <<>>
            /\ d.clock - d.files_list_cached_at < CACHE_REFRESH_INTERVAL
    THEN [files |-> d.files_list_cache, files_list_cache |-> d.files_list_cache,
          files_list_cached_at |-> d.files_list_cached_at, service |-> TRUE,
          calls |-> 0, failed |-> FALSE]
    ELSE IF lo.ok_at > 0
    THEN [files |-> lo.files, files_list_cache |-> lo.files,
          files_list_cached_at |-> d.clock, service |-> TRUE, calls |-> lo.ok_at,
          failed |-> FALSE]
    ELSE [files |-> d.files_list_cache, files_list_cache |-> d.files_list_cache,
          files_list_cached_at |-> d.files_list_cached_at, service |-> TRUE,
          calls |-> MAX_RETRIES, failed |-> TRUE]

\* the loop of get_all_documents_text over the files from the i-th on: the
\* blocks of the documents with a text, the cache, the attempts made, and
\* whether a download failed at every attempt
RECURSIVE DownloadAll(_, _, _, _, _)
DownloadAll(d, files, i, creds, ok_at) ==
    IF i > Len(files)
    THEN [texts |-> <<>>, pdf_cache |-> d.pdf_cache, calls |-> 0, failed |-> FALSE]
    ELSE LET file == files[i]
             r == DownloadPdf(d, file.id, file.modifiedTime, creds, ok_at[file.id])
             rest == DownloadAll([d EXCEPT !.pdf_cache = r.pdf_cache, !.service = r.service],
                                 files, i + 1, creds, ok_at)
         IN  [texts |-> IF Truthy(r.text)
                        THEN <<DocumentBlocks[file.name, r.text]>> \o rest.texts
                        ELSE rest.texts,
              pdf_cache |-> rest.pdf_cache,
              calls |-> r.calls + rest.calls,
              failed |-> (r.calls = MAX_RETRIES /\ ~r.ok) \/ rest.failed]

\* a test of the cache that takes a text of just the interval for fresh
AllDocumentsCached_inclusive(d, force_refresh) ==
    /\ ~force_refresh
    /\ d.all_documents_text # ""
    /\ d.clock - d.all_documents_cached_at <= CACHE_REFRESH_INTERVAL

\* `not force_refresh and self.all_documents_text and cache_age <
\* CACHE_REFRESH_INTERVAL`
AllDocumentsCached(d, force_refresh) ==
    /\ ~force_refresh
    /\ d.all_documents_text # ""
    /\ d.clock - d.all_documents_cached_at < CACHE_REFRESH_INTERVAL

(***************************************************************************)
(* The cache of the web pages (web_scraper.py).                            *)
(***************************************************************************)
\* the clock of the web cache model, in seconds
MaxScraperClock == 2700

\* the pages asked for
Urls == {"https://iestpjva.edu.pe", "https://iestpjva.edu.pe/nosotros/mision"}

\* the texts _extract_text_from_page finds
PageTexts == {"Admision 2025", "Admision 2026"}

\* how _extract_text_from_page ends: the request raises; the page has no
\* main content; the main content has no text; the text of the page
PageFetches ==
    {[kind |-> "error", content |-> None], [kind |-> "no_main", content |-> None],
     [kind |-> "no_text", content |-> ""]}
    \cup { [kind |-> "text", content |-> t] : t \in PageTexts }

\* url is not in cache_timestamps
NoStamp == -1

\* no call of the scraper yet
NoScraperCall ==
    [op |-> "none", url |-> "", force |-> FALSE, fetch |-> "none", returned |-> None]

\* a WebScraper without cache file or call; cache[url] = None: url is not in
\* the cache
ScraperIdle ==
    [cache |-> [u \in Urls |-> None], cache_timestamps |-> [u \in Urls |-> NoStamp],
     clock |-> 0, last |-> NoScraperCall]

\* WebScraper._is_cache_valid
IsCacheValid(s, url) ==
    /\ s.cache_timestamps[url] # NoStamp
    /\ s.clock - s.cache_timestamps[url] < CACHE_REFRESH_INTERVAL

\* a get_page_content that answers a failed fetch with the expired content
PageContent_expired_fallback(s, url, force_refresh, fetch) ==
    IF ~force_refresh /\ IsCacheValid(s, url)
    THEN [returned |-> s.cache[url], cache |-> s.cache,
          cache_timestamps |-> s.cache_timestamps, fetch |-> "none"]
    ELSE IF Truthy(fetch.content)
    THEN [returned |-> fetch.content,
          cache |-> [s.cache EXCEPT ![url] = fetch.content],
          cache_timestamps |-> [s.cache_timestamps EXCEPT ![url] = s.clock],
          fetch |-> fetch.kind]
    ELSE [returned |-> s.cache[url], cache |-> s.cache,
          cache_timestamps |-> s.cache_timestamps, fetch |-> fetch.kind]

\* WebScraper.get_page_content on the scraper s: what it returns, the cache
\* it leaves, and how the fetch it made ended ("none": no fetch)
PageContent(s, url, force_refresh, fetch) ==
    IF ~force_refresh /\ IsCacheValid(s, url)
    THEN [returned |-> s.cache[url], cache |-> s.cache,
          cache_timestamps |-> s.cache_timestamps, fetch |-> "none"]
    ELSE IF Truthy(fetch.content)
    THEN [returned |-> fetch.content,
          cache |-> [s.cache EXCEPT ![url] = fetch.content],
          cache_timestamps |-> [s.cache_timestamps EXCEPT ![url] = s.clock],
          fetch |-> fetch.kind]
    ELSE [returned |-> fetch.content, cache |-> s.cache,
          cache_timestamps |-> s.cache_timestamps, fetch |-> fetch.kind]

\* the services are not part of the run
ServicesIdle ==
    /\ sheets = SheetsIdle
    /\ drive = DriveIdle
    /\ scraper = ScraperIdle

Init ==
    /\ ManagerInit
    /\ cls = ClsIdle
    /\ judge = JudgeIdle
    /\ chat = ChatIdle
    /\ race = RaceIdle
    /\ ServicesIdle

(***************************************************************************)
(* generate_response, one step per provider call.                          *)
(***************************************************************************)
\* web_context[:20000]
WebLimited(web) == SubSeq(web, 1, Min(Len(web), WEB_LIMIT))

\* history[:2], the first turns
LastTurns_first(turns) == SubSeq(turns, 1, Min(Len(turns), HISTORY_TURNS))

\* history[-2:]
LastTurns(turns) ==
    SubSeq(turns, Len(turns) - Min(Len(turns), HISTORY_TURNS) + 1, Len(turns))

\* AIManager._build_prompt: the parts the f-string puts in the prompt
BuildPrompt(message, pdf, web, hist) ==
    [pdf |-> pdf,
     web |-> WebLimited(web),
     history |-> IF hist.present /\ hist.turns # <<>>
                 THEN [placeholder |-> "", turns |-> LastTurns(hist.turns)]
                 ELSE [placeholder |-> "Inicio", turns |-> <<>>],
     message |-> message]

\* the record of one provider call in the log of the request: the model
\* called, the document context put in its prompt, the verdict of the
\* usefulness judge on what the call returned, and the text when the
\* verdict is "useful"
Call(provider, model, context, response, qtype) ==
    LET useful == Truthy(response) /\ Useful[response, qtype]
    IN  [provider |-> provider, model |-> model, context |-> context,
         prompt |-> BuildPrompt(user_message, context, web_context, conversation_history),
         useful |-> useful, text |-> IF useful THEN response ELSE None]

\* a budget one character short
ContextLimited_short(pdf) == SubSeq(pdf, 1, Min(Len(pdf), CONTEXT_LIMIT - 1))

\* pdf_context[:200000]
ContextLimited(pdf) == SubSeq(pdf, 1, Min(Len(pdf), CONTEXT_LIMIT))

\* the calls of the request made to one provider, in order
CallsTo(provider) == SelectSeq(calls, LAMBDA c : c.provider = provider)

\* a loop that ends one model early
LastModel_early(models, i) == i >= Len(models) - 1

\* `for model_name in models` has no model left after the i-th
LastModel(models, i) == i = Len(models)

\* an orchestrator that never accepts the OpenRouter response
OrAccepted_never(response, qtype) == FALSE

\* `if or_response and self._is_useful_response(or_response, query_type)`
OrAccepted(response, qtype) == Truthy(response) /\ Useful[response, qtype]

\* a final return that ignores the Gemini response
FinalResult_fallback_only(gm, orr) == orr

\* the final `return gm_response` / `return or_response`
FinalResult(gm, orr) == IF Truthy(gm) THEN gm ELSE orr

\* a generate_response that asks the rate limiter before anything else
GenerateResponse_gated(m, pdf, web, hist) ==
    /\ pc \in {"idle", "done"}
    /\ user_message' = m
    /\ pdf_context' = pdf
    /\ web_context' = web
    /\ conversation_history' = hist
    /\ context_limited' = ContextLimited(pdf)
    /\ query_type' = QueryTypeOf[m]
    /\ model_index' = 1
    /\ or_response' = None
    /\ gm_response' = None
    /\ result' = None
    /\ raised' = FALSE
    /\ gate' = "not_asked"
    /\ calls' = <<>>
    /\ last_outcome' = "none"
    /\ last_error' = "none"
    /\ pc' = IF CanCallGemini THEN "openrouter" ELSE "done"
    /\ UNCHANGED <<config, limiter, now, last_429_at, throttled_total>>

\* generate_response is entered: the query is classified and the OpenRouter
\* chain starts at its first model.
GenerateResponse(m, pdf, web, hist) ==
    /\ pc \in {"idle", "done"}
    /\ user_message' = m
    /\ pdf_context' = pdf
    /\ web_context' = web
    /\ conversation_history' = hist
    /\ context_limited' = ContextLimited(pdf)
    /\ query_type' = QueryTypeOf[m]
    /\ model_index' = 1
    /\ or_response' = None
    /\ gm_response' = None
    /\ result' = None
    /\ raised' = FALSE
    /\ gate' = "not_asked"
    /\ calls' = <<>>
    /\ last_outcome' = "none"
    /\ last_error' = "none"
    /\ pc' = "openrouter"
    /\ UNCHANGED <<config, limiter, now, last_429_at, throttled_total>>

\* one iteration of _run_model_chain("openrouter", ...)
OpenRouterCall(o) ==
    /\ pc = "openrouter"
    /\ OPENROUTER_API_KEY = "" => o.kind = "network_error" \/ o.status = 401
    /\ LET r == CallOpenRouter(o)
           ret == ChainStep(r.response, query_type)
       IN  /\ calls' = Append(calls, Call("openrouter", OPENROUTER_MODELS[model_index],
                                          context_limited, r.response, query_type))
           /\ last_outcome' = IF o.kind = "http" /\ o.status = 200
                              THEN "returned" ELSE "failed"
           /\ last_error' = IF o.kind = "http" /\ o.status = 200 THEN "none"
                            ELSE IF o.kind = "http" /\ o.status = 429
                            THEN "openrouter_429" ELSE "openrouter_error"
           /\ IF r.escaped
              THEN /\ raised' = TRUE
                   /\ pc' = "done"
                   /\ UNCHANGED <<or_response, model_index>>
              ELSE IF ret # None
              THEN /\ or_response' = ret
                   /\ pc' = "after_openrouter"
                   /\ UNCHANGED <<raised, model_index>>
              ELSE IF LastModel(OPENROUTER_MODELS, model_index)
              THEN /\ or_response' = None
                   /\ pc' = "after_openrouter"
                   /\ UNCHANGED <<raised, model_index>>
              ELSE /\ model_index' = model_index + 1
                   /\ UNCHANGED <<raised, or_response, pc>>
    /\ UNCHANGED <<config, limiter, now, user_message, pdf_context, context_limited, web_context,
                   conversation_history,
                   query_type, gm_response, result, gate, last_429_at, throttled_total>>

\* generate_response after the OpenRouter chain: return its useful response,
\* or ask the rate limiter and start the Gemini chain, or give up.
AfterOpenRouter ==
    /\ pc = "after_openrouter"
    /\ IF OrAccepted(or_response, query_type)
       THEN /\ result' = or_response
            /\ pc' = "done"
            /\ UNCHANGED <<gate, model_index>>
       ELSE IF CanCallGemini
       THEN /\ gate' = "open"
            /\ pc' = "gemini"
            /\ model_index' = 1
            /\ UNCHANGED result
       ELSE /\ gate' = "closed"
            /\ result' = or_response
            /\ pc' = "done"
            /\ UNCHANGED model_index
    /\ UNCHANGED <<config, limiter, now, user_message, pdf_context, context_limited, web_context,
                   conversation_history,
                   query_type, or_response, gm_response, raised, calls, last_outcome,
                   observed>>

\* one iteration of _run_model_chain("gemini", ...)
GeminiCall(o) ==
    /\ pc = "gemini"
    /\ (o.kind = "exception" /\ IsThrottling(o.error))
          => gemini_consecutive_429 < MaxThrottle
    /\ LET r == CallGemini(o)
           ret == ChainStep(r.response, query_type)
           h == HandleGeminiError(o.error)
       IN  /\ calls' = Append(calls, Call("gemini", GEMINI_MODELS[model_index],
                                          pdf_context, r.response, query_type))
           /\ last_outcome' = IF o.kind = "exception" THEN "failed" ELSE "returned"
           /\ last_error' = IF o.kind # "exception" THEN "none"
                            ELSE IF IsThrottling(o.error) THEN "throttling"
                            ELSE "gemini_error"
           /\ throttled_total' = IF o.kind = "exception" /\ IsThrottling(o.error)
                                 THEN throttled_total + 1 ELSE throttled_total
           /\ IF r.handled
              THEN /\ gemini_consecutive_429' = h.count
                   /\ gemini_cooldown_until' = h.until
                   /\ last_429_at' = IF IsThrottling(o.error) THEN now ELSE last_429_at
              ELSE UNCHANGED <<limiter, last_429_at>>
           /\ IF r.escaped
              THEN /\ raised' = TRUE
                   /\ pc' = "done"
                   /\ UNCHANGED <<gm_response, model_index>>
              ELSE IF ret # None
              THEN /\ gm_response' = ret
                   /\ pc' = "after_gemini"
                   /\ UNCHANGED <<raised, model_index>>
              ELSE IF LastModel(GEMINI_MODELS, model_index)
              THEN /\ gm_response' = None
                   /\ pc' = "after_gemini"
                   /\ UNCHANGED <<raised, model_index>>
              ELSE /\ model_index' = model_index + 1
                   /\ UNCHANGED <<raised, gm_response, pc>>
    /\ UNCHANGED <<config, now, user_message, pdf_context, context_limited, web_context,
                   conversation_history,
                   query_type, or_response, result, gate>>

\* a generate_response that goes back to the OpenRouter chain after Gemini
AfterGemini_back_to_openrouter ==
    /\ pc = "after_gemini"
    /\ IF Truthy(gm_response)
       THEN result' = gm_response /\ pc' = "done" /\ UNCHANGED model_index
       ELSE pc' = "openrouter" /\ model_index' = 1 /\ UNCHANGED result
    /\ UNCHANGED <<config, limiter, now, user_message, pdf_context, context_limited, web_context,
                   conversation_history,
                   query_type, or_response, gm_response, raised, gate,
                   calls, last_outcome, observed>>

\* generate_response after the Gemini chain: its response, or the final
\* fallback `return or_response`.
AfterGemini ==
    /\ pc = "after_gemini"
    /\ result' = FinalResult(gm_response, or_response)
    /\ pc' = "done"
    /\ UNCHANGED <<config, limiter, now, user_message, pdf_context, context_limited, web_context,
                   conversation_history,
                   query_type, model_index, or_response, gm_response, raised, gate,
                   calls, last_outcome, observed>>

\* time passes
Tick(d) ==
    /\ now + d <= MaxNow
    /\ now' = now + d
    /\ UNCHANGED <<config, limiter, request, observed>>

Next ==
    \/ \E m \in Messages, pdf \in PdfContexts, web \in WebContexts, hist \in Histories :
          GenerateResponse(m, pdf, web, hist) /\ UNCHANGED <<cls, judge, chat, race, services>>
    \/ \E o \in OpenRouterOutcomes : OpenRouterCall(o) /\ UNCHANGED <<cls, judge, chat, race, services>>
    \/ AfterOpenRouter /\ UNCHANGED <<cls, judge, chat, race, services>>
    \/ \E o \in GeminiOutcomes : GeminiCall(o) /\ UNCHANGED <<cls, judge, chat, race, services>>
    \/ AfterGemini /\ UNCHANGED <<cls, judge, chat, race, services>>
    \/ \E d \in TickSteps : Tick(d) /\ UNCHANGED <<cls, judge, chat, race, services>>

Spec == Init /\ [][Next]_vars

(***************************************************************************)
(* Properties of generate_response and _run_model_chain.                   *)
(***************************************************************************)
\* the request in progress has returned normally
Returned == pc = "done" /\ ~raised

\* some call of the request to the provider was judged useful
SomeUseful(provider) ==
    \E k \in 1..Len(CallsTo(provider)) : CallsTo(provider)[k].useful

\* the chain of the provider has returned in this request
ChainReturned(provider) ==
    IF provider = "openrouter"
    THEN pc \in {"after_openrouter", "gemini", "after_gemini"} \/ Returned
    ELSE pc = "after_gemini" \/ (Returned /\ gate = "open")

\* the configured model list of the provider
ModelsOf(provider) == IF provider = "openrouter" THEN OPENROUTER_MODELS ELSE GEMINI_MODELS

\* the value the chain of the provider returned
ChainResult(provider) == IF provider = "openrouter" THEN or_response ELSE gm_response

\* C1: whenever a model of the OpenRouter chain gives a useful response, no
\* Gemini model is called in the request and the request returns that
\* response, whatever the model and whatever the state of the rate limiter.
C1_UsefulOpenRouterSkipsGemini ==
    SomeUseful("openrouter") =>
        /\ Len(CallsTo("gemini")) = 0
        /\ gate = "not_asked"
        /\ Returned =>
              /\ result = CallsTo("openrouter")[Len(CallsTo("openrouter"))].text
              /\ Truthy(result)

\* C1 witness: the second OpenRouter model gave the useful response that was
\* returned, while Gemini had a key and was out of cooldown.
C1_Witness ==
    /\ Returned
    /\ Len(calls) = 2
    /\ calls[2].provider = "openrouter" /\ calls[2].useful
    /\ result = calls[2].text
    /\ GEMINI_API_KEY # "" /\ now >= gemini_cooldown_until

\* C2: when the OpenRouter chain is exhausted without a useful response, the
\* gate lets Gemini through and the first Gemini model gives a useful
\* response, the request returns exactly that response after one Gemini call.
C2_FirstGeminiModelWins ==
    ( /\ Returned
      /\ ~SomeUseful("openrouter")
      /\ gate = "open"
      /\ CallsTo("gemini")[1].useful )
    =>  /\ result = CallsTo("gemini")[1].text
        /\ Truthy(result)
        /\ Len(CallsTo("gemini")) = 1
        /\ Len(CallsTo("openrouter")) = Len(OPENROUTER_MODELS)

\* C2 witness: three OpenRouter calls without a useful response, then one
\* Gemini call whose response is returned.
C2_Witness ==
    /\ Returned
    /\ Len(calls) = 4
    /\ calls[4].provider = "gemini" /\ calls[4].useful
    /\ result = calls[4].text

\* C3: a request in which no call of either provider gave a useful response
\* returns None: both chains exhausted, or OpenRouter exhausted with the
\* Gemini gate closed by a cooldown or a missing key.
C3_NothingUsefulReturnsNone ==
    (Returned /\ ~SomeUseful("openrouter") /\ ~SomeUseful("gemini")) =>
        /\ result = None
        /\ Len(CallsTo("openrouter")) = Len(OPENROUTER_MODELS)
        /\ \/ gate = "open" /\ Len(CallsTo("gemini")) = Len(GEMINI_MODELS)
           \/ gate = "closed" /\ Len(CallsTo("gemini")) = 0

\* C3 witness: OpenRouter exhausted while Gemini, with a key, is in cooldown.
C3_Witness ==
    /\ Returned
    /\ result = None
    /\ gate = "closed"
    /\ GEMINI_API_KEY # ""
    /\ now < gemini_cooldown_until
    /\ Len(calls) = 3

\* C4: a returned value is None or passes the usefulness judge for the label
\* of the request's message; `return or_response` returns no response that
\* is present and not useful.
C4_ResultIsNoneOrUseful ==
    Returned =>
        \/ result = None
        \/ Truthy(result) /\ Useful[result, QueryTypeOf[user_message]]

\* C4 witness: a date question answered by Gemini after OpenRouter gave
\* responses that were not useful.
C4_Witness ==
    /\ Returned
    /\ query_type = "fechas"
    /\ Truthy(result)
    /\ result = gm_response
    /\ Len(CallsTo("gemini")) = 2

\* C5: the chain stops at the first useful response and returns it: the
\* calls of a provider go to its models in priority order, only the last
\* one can be useful, and when it is, the chain result is its text.
C5_ChainStopsAtFirstUseful ==
    \A p \in {"openrouter", "gemini"} :
        LET cs == CallsTo(p) IN
        /\ Len(cs) <= Len(ModelsOf(p))
        /\ \A k \in 1..Len(cs) :
              /\ cs[k].model = ModelsOf(p)[k]
              /\ cs[k].useful => k = Len(cs)
        /\ (ChainReturned(p) /\ SomeUseful(p)) =>
              /\ ChainResult(p) = cs[Len(cs)].text
              /\ Truthy(ChainResult(p))

\* C5 witness: the Gemini chain returned at its second model (index 1):
\* two Gemini calls.
C5_Witness ==
    /\ pc = "after_gemini"
    /\ Len(CallsTo("gemini")) = 2
    /\ CallsTo("gemini")[2].useful
    /\ gm_response = CallsTo("gemini")[2].text

\* C6: a chain none of whose models gave a useful response returns None
\* after calling every configured model once, in list order.
C6_ExhaustedChainReturnsNone ==
    \A p \in {"openrouter", "gemini"} :
        (ChainReturned(p) /\ ~SomeUseful(p)) =>
            /\ ChainResult(p) = None
            /\ [k \in 1..Len(CallsTo(p)) |-> CallsTo(p)[k].model] = ModelsOf(p)

\* C6 witness: the OpenRouter chain has just returned None after three calls.
C6_Witness ==
    /\ pc = "after_openrouter"
    /\ or_response = None
    /\ Len(calls) = 3

C8_ExponentialBackoff ==
    gemini_consecutive_429 >= 1 =>
        LET n == gemini_consecutive_429
            cooldown == gemini_cooldown_until - last_429_at
        IN  /\ cooldown = (CASE n = 1 -> 60 [] n = 2 -> 120 [] n = 3 -> 240
                             [] n = 4 -> 480 [] OTHER -> 600)
            /\ cooldown >= 60 /\ cooldown <= 600

\* C8 witness: the sixth throttling error, with the capped cooldown.
C8_Witness ==
    /\ gemini_consecutive_429 = 6
    /\ gemini_cooldown_until = last_429_at + 600

\* C9: the gate is closed while now < cooldown_until, closed without a key
\* whatever the cooldown, open in every other state, and asking it leaves
\* the limiter state alone.
C9_GateDecision ==
    [][ (gate = "not_asked" /\ gate' # "not_asked") =>
            /\ now < gemini_cooldown_until => gate' = "closed"
            /\ GEMINI_API_KEY = "" => gate' = "closed"
            /\ (GEMINI_API_KEY # "" /\ now >= gemini_cooldown_until) => gate' = "open"
            /\ UNCHANGED limiter
      ]_vars

\* C9 witness: the gate was asked at the very second a cooldown ended, and
\* let the Gemini chain start.
C9_Witness ==
    /\ pc = "gemini"
    /\ gate = "open"
    /\ Len(CallsTo("gemini")) = 0
    /\ gemini_consecutive_429 >= 1
    /\ now = gemini_cooldown_until

\* C10 as stated: a provider without a key, OpenRouter or Gemini, is never
\* called and the request does not crash.
C10_NoKeyNoCall ==
    /\ ~raised
    /\ GEMINI_API_KEY = "" => Len(CallsTo("gemini")) = 0
    /\ OPENROUTER_API_KEY = "" => Len(CallsTo("openrouter")) = 0

\* C10 amended: without a Gemini key the gate is closed and no Gemini model
\* is called; OpenRouter has no availability check, so without an
\* OpenRouter key every OpenRouter model is still called and its chain
\* returns None; in both cases nothing is raised.
C10_NoKeyGeminiOnly ==
    /\ ~raised
    /\ GEMINI_API_KEY = "" => (Len(CallsTo("gemini")) = 0 /\ gate # "open")
    /\ (OPENROUTER_API_KEY = "" /\ ChainReturned("openrouter")) =>
          /\ or_response = None
          /\ Len(CallsTo("openrouter")) = Len(OPENROUTER_MODELS)

\* C10 witness: a request served with no key at all: three OpenRouter
\* calls, the gate closed, None returned.
C10_Witness ==
    /\ Returned
    /\ OPENROUTER_API_KEY = "" /\ GEMINI_API_KEY = ""
    /\ Len(calls) = 3
    /\ gate = "closed"
    /\ result = None

(***************************************************************************)
(* Properties of the rate limiter across requests.                         *)
(***************************************************************************)
\* this step is a provider call
CallStep == Len(calls') = Len(calls) + 1

\* this step is a Gemini call that ended in a throttling error
ThrottleStep ==
    /\ CallStep
    /\ calls'[Len(calls')].provider = "gemini"
    /\ last_error' = "throttling"

\* C22: the provider calls of a request are strictly sequential: a step
\* makes at most one call, appended to the log of the request; a call is
\* made only when the previous call of the request has ended; it goes to the
\* next model of the chain in progress; an OpenRouter call is made only
\* while no Gemini call has been made, and a Gemini call only after the
\* OpenRouter chain has returned.
C22_CallsSequential ==
    [][ IF CallStep
        THEN LET c == calls'[Len(calls')] IN
             /\ calls' = Append(calls, c)
             /\ Len(calls) > 0 => last_outcome # "none"
             /\ c.provider = pc
             /\ c.provider = "openrouter" =>
                   \A i \in 1..Len(calls) : calls[i].provider = "openrouter"
             /\ c.provider = "gemini" =>
                   /\ gate = "open"
                   /\ \A i \in 1..Len(calls) :
                         calls[i].provider = "openrouter" =>
                             \A j \in 1..Len(calls) :
                                 calls[j].provider = "gemini" => i < j
             /\ Len(CallsTo(c.provider)) = model_index - 1
             /\ c.model = ModelsOf(c.provider)[model_index]
        ELSE calls' = calls \/ calls' = <<>>
      ]_vars

\* C22 witness: three OpenRouter calls, then two Gemini calls, the chain
\* being at the third Gemini model.
C22_Witness ==
    /\ pc = "gemini"
    /\ model_index = 3
    /\ Len(calls) = 5
    /\ \A i \in 1..3 : calls[i].provider = "openrouter"
    /\ \A i \in 4..5 : calls[i].provider = "gemini"

\* C23: while time does not go backwards, cooldown_until never decreases:
\* a throttling error sets it to a value not below the previous one and no
\* other step changes it.
C23_CooldownMonotonic ==
    [][ now' >= now =>
          /\ gemini_cooldown_until' >= gemini_cooldown_until
          /\ ThrottleStep => gemini_cooldown_until' >= now
          /\ ~ThrottleStep => gemini_cooldown_until' = gemini_cooldown_until
      ]_vars

\* C23 witness: a second throttling error, handled after the first cooldown
\* had ended, moved cooldown_until further.
C23_Witness ==
    /\ last_error = "throttling"
    /\ gemini_consecutive_429 = 2
    /\ last_429_at >= 60
    /\ gemini_cooldown_until = last_429_at + 120

\* C24: the rate-limit state changes only in a Gemini call that ends in a
\* throttling error: every other step (a Gemini error of another kind, a
\* Gemini call that returns, any OpenRouter outcome, the entry of a request
\* with its classification, the judge, the gate, the clock) leaves
\* cooldown_until and the counter as they were.
C24_LimiterFrame ==
    [][ ~ThrottleStep => UNCHANGED limiter ]_vars

\* C24 witness: an HTTP 429 from OpenRouter in a request after a Gemini
\* throttling error left the limiter as that error had set it.
C24_Witness ==
    /\ last_error = "openrouter_429"
    /\ gemini_consecutive_429 = 1
    /\ gemini_cooldown_until = last_429_at + 60
    /\ now >= gemini_cooldown_until

\* C25: the throttle counter never decreases and is never reset: it is the
\* number of throttling errors handled since the manager was created, and
\* each throttling error sets the cooldown from that total, doubling the
\* previous backoff (up to 600) whatever happened in between.
C25_CounterNeverReset ==
    [][ /\ gemini_consecutive_429' >= gemini_consecutive_429
        /\ gemini_consecutive_429' = throttled_total'
        /\ ThrottleStep =>
              gemini_cooldown_until' =
                  now + (IF 60 * (2 ^ throttled_total) < 600
                         THEN 60 * (2 ^ throttled_total) ELSE 600)
      ]_vars

\* C25 witness: the third throttling error fell in a request whose gate was
\* open, so after an elapsed cooldown, and after another Gemini call of
\* that request; the backoff is 240 s, not 60 s.
C25_Witness ==
    /\ last_error = "throttling"
    /\ throttled_total = 3
    /\ Len(CallsTo("gemini")) = 2
    /\ last_429_at >= 120
    /\ gemini_cooldown_until = last_429_at + 240

\* C26: a throttling error does not end the Gemini chain: the chain goes on
\* to the next model, or returns None after the last one, the counter goes
\* up by one at each throttling error, nothing is raised, and the gate is
\* asked once per request, before the first Gemini call.
C26_ThrottlingKeepsChain ==
    [][ /\ ThrottleStep =>
              /\ gate = "open" /\ gate' = "open"
              /\ ~raised'
              /\ gemini_consecutive_429' = gemini_consecutive_429 + 1
              /\ IF model_index < Len(GEMINI_MODELS)
                 THEN pc' = "gemini" /\ model_index' = model_index + 1
                 ELSE pc' = "after_gemini" /\ gm_response' = None
        /\ (gate' # gate /\ gate' # "not_asked") =>
              /\ gate = "not_asked"
              /\ calls' = calls
              /\ \A i \in 1..Len(calls) : calls[i].provider = "openrouter"
      ]_vars

\* C26 witness: the first two Gemini models of the first request that
\* reached Gemini both hit a throttling error, and the chain is at the third.
C26_Witness ==
    /\ pc = "gemini"
    /\ model_index = 3
    /\ now = 0
    /\ gemini_consecutive_429 = 2
    /\ gemini_cooldown_until = 120
    /\ last_error = "throttling"

\* C27: a request that reaches the Gemini step while now < cooldown_until
\* makes no Gemini call and returns what the OpenRouter chain returned.
C27_CooldownSkipsGemini ==
    [][ (gate = "not_asked" /\ gate' # "not_asked" /\ now < gemini_cooldown_until) =>
            /\ gate' = "closed"
            /\ pc' = "done" /\ ~raised'
            /\ result' = or_response
            /\ calls' = calls
            /\ \A i \in 1..Len(calls) : calls[i].provider = "openrouter"
      ]_vars

\* C27 witness: a request made after the one that was throttled, while the
\* cooldown still ran, returned None without a Gemini call.
C27_Witness ==
    /\ Returned
    /\ gate = "closed"
    /\ GEMINI_API_KEY # ""
    /\ throttled_total >= 1
    /\ now > last_429_at
    /\ now < gemini_cooldown_until
    /\ result = None
    /\ Len(CallsTo("gemini")) = 0

\* C28: a cooldown is never permanent: cooldown_until is at most 600 s after
\* the most recent throttling error, so with a key, once 600 s have passed
\* without a throttling error, the gate condition holds again.
C28_CooldownBounded ==
    /\ gemini_cooldown_until <= last_429_at + 600
    /\ (GEMINI_API_KEY # "" /\ now >= last_429_at + 600) =>
          ~(now < gemini_cooldown_until)

\* C28 witness: after a capped cooldown of 600 s the gate let a request
\* through to Gemini again.
C28_Witness ==
    /\ gate = "open"
    /\ pc = "gemini"
    /\ gemini_consecutive_429 >= 5
    /\ gemini_cooldown_until = last_429_at + 600
    /\ now >= gemini_cooldown_until

\* C29: the gate is asked only before the Gemini chain: a request that has
\* made no call is at the first OpenRouter model with the gate not asked,
\* and the first call of every request goes to the first OpenRouter model.
C29_OpenRouterAlwaysTried ==
    /\ Len(calls) = 0 => (pc \in {"idle", "openrouter"} /\ gate = "not_asked")
    /\ Len(calls) > 0 =>
          /\ calls[1].provider = "openrouter"
          /\ calls[1].model = OPENROUTER_MODELS[1]
    /\ pc = "done" => Len(calls) > 0

\* C29 witness: the first OpenRouter model was called during a cooldown.
C29_Witness ==
    /\ Len(calls) = 1
    /\ calls[1].provider = "openrouter"
    /\ gemini_consecutive_429 >= 1
    /\ now < gemini_cooldown_until

(***************************************************************************)
(* classify_query as a function of the message.                            *)
(***************************************************************************)
\* words the messages are made of: keywords of several labels in several
\* letter cases, and words that are no keyword
ClassifyWords ==
    << "Matrícula", "plazo", "COSTO", "cronograma", "Título", "turno",
       "hola", "GRACIAS", "xyz", "buenos" >>

\* the messages classified: the empty message, one word, two words
ClassifyInputs ==
    {""} \cup { ClassifyWords[i] : i \in 1..Len(ClassifyWords) }
         \cup { ClassifyWords[i] \o " " \o ClassifyWords[j] :
                  i, j \in 1..Len(ClassifyWords) }

\* classify_query is called with a message
ClassifyCall(m) ==
    /\ cls.pc = "idle"
    /\ cls' = [pc |-> "called", message |-> m, label |-> None]
    /\ UNCHANGED <<manager, judge, chat, race, services>>

\* classify_query returns
ClassifyReturn ==
    /\ cls.pc = "called"
    /\ cls' = [cls EXCEPT !.pc = "returned", !.label = classify_query(cls.message)]
    /\ UNCHANGED <<manager, judge, chat, race, services>>

ClassifyInit ==
    /\ ManagerInit
    /\ OPENROUTER_API_KEY = "sk-or-key"
    /\ GEMINI_API_KEY = "AIza-key"
    /\ cls = ClsIdle
    /\ judge = JudgeIdle
    /\ chat = ChatIdle
    /\ race = RaceIdle
    /\ ServicesIdle

ClassifyNext ==
    \/ \E m \in ClassifyInputs : ClassifyCall(m)
    \/ ClassifyReturn

ClassifySpec == ClassifyInit /\ [][ClassifyNext]_vars

\* the rows of the keyword table with a keyword occurring in the message,
\* letter case ignored
HitRows(m) ==
    { j \in 1..Len(QUERY_CLASSIFICATIONS) :
        \E k \in 1..Len(QUERY_CLASSIFICATIONS[j].keywords) :
            Contains(Lower(m), QUERY_CLASSIFICATIONS[j].keywords[k]) }

\* C12: classify_query returns, for every message, one of the 16 labels:
\* the label of the only row with a keyword in the message when there is
\* exactly one such row, 'general' exactly when there is none, and never
\* 'cronograma'.
C12_ClassifyTotal ==
    /\ Cardinality(Labels) = 16
    /\ cls.pc = "returned" =>
          /\ cls.label \in Labels
          /\ cls.label # "cronograma"
          /\ Cardinality(HitRows(cls.message)) = 1 =>
                \E j \in HitRows(cls.message) :
                    cls.label = QUERY_CLASSIFICATIONS[j].qtype
          /\ cls.label = "general" <=> HitRows(cls.message) = {}

\* C12 witness: an upper-case keyword of one label only, its label returned.
C12_Witness ==
    /\ cls.pc = "returned"
    /\ cls.message = "COSTO xyz"
    /\ cls.label = "costos"

\* C13: with keywords of several labels in the message, the label returned
\* is the one of the first such row of the table, wherever the keywords
\* stand in the message.
C13_FirstLabelWins ==
    (cls.pc = "returned" /\ Cardinality(HitRows(cls.message)) >= 2) =>
        \E j \in HitRows(cls.message) :
            /\ cls.label = QUERY_CLASSIFICATIONS[j].qtype
            /\ \A k \in HitRows(cls.message) : j <= k

\* C13 witness: the keyword of the later row comes first in the message.
C13_Witness ==
    /\ cls.pc = "returned"
    /\ cls.message = "plazo Matrícula"
    /\ cls.label = "matrícula"

(***************************************************************************)
(* _is_useful_response as a function of the response and the label.        *)
(***************************************************************************)
\* responses judged: absent, empty, 49 and 50 characters long, with and
\* without "no sé" phrases, contacts, cost words, figures, months
JudgeResponses ==
    { None, "",
      "La secretaría atiende de 8 a 13 horas en el local",
      "La secretaría atiende de 8 a 13 horas en el local.",
      "No encuentro información sobre ese trámite en los documentos.",
      "No encuentro información sobre ese trámite; escribe al correo: x@y.com",
      "Lo siento, no tengo información del costo; escribe al correo de secretaría.",
      "No se indica en los documentos; consulta por Teléfono en horario de oficina.",
      "El costo varía según el programa de estudios elegido por el alumno.",
      "El pago de la matrícula es de cuatrocientos cincuenta soles en caja.",
      "El costo de la matrícula es S/. 450.00 y se paga en tesorería.",
      "La inscripción se realiza durante todo el mes de marzo y abril.",
      "Las fechas se publicarán pronto en la página web del instituto.",
      "El plazo de inscripción vence el 15 de marzo para todos los programas.",
      "el costo varía según el programa",
      "el costo es S/. 450.00",
      "las fechas se publicarán pronto",
      "el plazo vence el 15 de marzo" }

\* labels the judge is called with: those of the classifier and 'cronograma'
JudgeLabels == Labels \cup {"cronograma"}

\* _is_useful_response is called
JudgeCall(r, q) ==
    /\ judge.pc = "idle"
    /\ judge' = [pc |-> "called", response |-> r, qtype |-> q, verdict |-> FALSE]
    /\ UNCHANGED <<manager, cls, chat, race, services>>

\* _is_useful_response returns
JudgeReturn ==
    /\ judge.pc = "called"
    /\ judge' = [judge EXCEPT !.pc = "returned",
                              !.verdict = IsUsefulResponse(judge.response, judge.qtype)]
    /\ UNCHANGED <<manager, cls, chat, race, services>>

JudgeInit ==
    /\ ManagerInit
    /\ OPENROUTER_API_KEY = "sk-or-key"
    /\ GEMINI_API_KEY = "AIza-key"
    /\ cls = ClsIdle
    /\ judge = JudgeIdle
    /\ chat = ChatIdle
    /\ race = RaceIdle
    /\ ServicesIdle

JudgeNext ==
    \/ \E r \in JudgeResponses, q \in JudgeLabels : JudgeCall(r, q)
    \/ JudgeReturn

JudgeSpec == JudgeInit /\ [][JudgeNext]_vars

\* the judged response is a text (not absent), in lower case
JudgedLow == Lower(judge.response)

\* the judged response is absent or empty
JudgedAbsent == judge.response = None \/ judge.response = ""

\* the judged response is a text of at least 50 characters
JudgedLong == ~JudgedAbsent /\ Len(judge.response) >= 50

\* it contains one of the "no sé" phrases
JudgedHasIdk ==
    \E k \in 1..Len(useless_phrases) : Contains(JudgedLow, useless_phrases[k])

\* it contains a contact indicator
JudgedHasContact ==
    \E w \in {"correo", "teléfono", "presencialmente", "dirección"} :
        Contains(JudgedLow, w)

\* it mentions a cost word
JudgedHasCostWord == \E w \in {"costo", "pago", "precio"} : Contains(JudgedLow, w)

\* it contains "s/.", "soles" or a digit
JudgedHasFigure ==
    \/ Contains(JudgedLow, "s/.")
    \/ Contains(JudgedLow, "soles")
    \/ \E i \in 1..Len(JudgedLow) : SubSeq(JudgedLow, i, i) \in Digits

\* it contains a digit or the name of a month
JudgedHasDate ==
    \/ \E i \in 1..Len(JudgedLow) : SubSeq(JudgedLow, i, i) \in Digits
    \/ \E k \in 1..Len(months) : Contains(JudgedLow, months[k])

\* what rules 2 to 5 of the judge say of the judged response
JudgedAfterLength ==
    IF JudgedHasIdk THEN JudgedHasContact
    ELSE /\ ~(/\ judge.qtype \in {"costos", "matrícula", "titulación"}
              /\ JudgedHasCostWord /\ ~JudgedHasFigure)
         /\ ~(judge.qtype \in {"fechas", "cronograma"} /\ ~JudgedHasDate)

\* C14: an absent response, the empty string and every response shorter
\* than 50 characters are not useful whatever the label; a response of
\* exactly 50 characters is not stopped by the length gate.
C14_LengthGate ==
    judge.pc = "returned" =>
        /\ JudgedAbsent => ~judge.verdict
        /\ (~JudgedAbsent /\ Len(judge.response) < 50) => ~judge.verdict
        /\ (~JudgedAbsent /\ Len(judge.response) = 50) =>
              judge.verdict = JudgedAfterLength

\* C14 witness: a response of exactly 50 characters judged useful.
C14_Witness ==
    /\ judge.pc = "returned"
    /\ ~JudgedAbsent /\ Len(judge.response) = 50
    /\ judge.verdict

\* C15: a response of at least 50 characters with a "no sé" phrase is useful
\* exactly when it contains a contact indicator, whatever the label and
\* whatever the money and date rules would say.
C15_ContactRescue ==
    (judge.pc = "returned" /\ JudgedLong /\ JudgedHasIdk) =>
        judge.verdict = JudgedHasContact

\* C15 witness: a decline with a contact, a cost word and no figure,
\* accepted for the label 'costos'.
C15_Witness ==
    /\ judge.pc = "returned"
    /\ judge.qtype = "costos"
    /\ JudgedLong /\ JudgedHasIdk /\ JudgedHasContact
    /\ JudgedHasCostWord /\ ~JudgedHasFigure
    /\ judge.verdict

\* C16: a response of at least 50 characters without a "no sé" phrase,
\* judged for costos, matrícula or titulación, is rejected exactly when it
\* has a cost word and no figure; for a label outside that set the money
\* rule rejects nothing: the verdict is the one of the date rule.
C16_MoneyRule ==
    (judge.pc = "returned" /\ JudgedLong /\ ~JudgedHasIdk) =>
        IF judge.qtype \in {"costos", "matrícula", "titulación"}
        THEN ~judge.verdict <=> (JudgedHasCostWord /\ ~JudgedHasFigure)
        ELSE judge.verdict <=>
                ~(judge.qtype \in {"fechas", "cronograma"} /\ ~JudgedHasDate)

\* C16 witness: a cost word without a figure, rejected for 'matrícula'.
C16_Witness ==
    /\ judge.pc = "returned"
    /\ judge.qtype = "matrícula"
    /\ JudgedLong /\ ~JudgedHasIdk
    /\ JudgedHasCostWord /\ ~JudgedHasFigure
    /\ ~judge.verdict

\* the judged response passes rules 1 to 3 of the judge
JudgedPassesMoney ==
    /\ JudgedLong /\ ~JudgedHasIdk
    /\ ~(/\ judge.qtype \in {"costos", "matrícula", "titulación"}
         /\ JudgedHasCostWord /\ ~JudgedHasFigure)

\* C17: a response that passes rules 1 to 3, judged for fechas or
\* cronograma, is rejected exactly when it has neither a digit nor a month
\* name; for every other label it is useful.
C17_DateRule ==
    (judge.pc = "returned" /\ JudgedPassesMoney) =>
        IF judge.qtype \in {"fechas", "cronograma"}
        THEN ~judge.verdict <=> ~JudgedHasDate
        ELSE judge.verdict

\* C17 witness: a month name and no digit, accepted for 'cronograma'.
C17_Witness ==
    /\ judge.pc = "returned"
    /\ judge.qtype = "cronograma"
    /\ JudgedPassesMoney
    /\ JudgedHasDate
    /\ \A i \in 1..Len(JudgedLow) : SubSeq(JudgedLow, i, i) \notin Digits
    /\ judge.verdict

\* C18 as stated: for the label costos "el costo varía según el programa"
\* is not useful and "el costo es S/. 450.00" is useful.
C18_ExamplesAsStated ==
    (judge.pc = "returned" /\ judge.qtype = "costos") =>
        /\ judge.response = "el costo varía según el programa" => ~judge.verdict
        /\ judge.response = "el costo es S/. 450.00" => judge.verdict

\* C18: for the label costos both "el costo varía según el programa" and
\* "el costo es S/. 450.00" are not useful, each being shorter than 50
\* characters; of two responses of at least 50 characters, the one that
\* mentions the cost without a figure is not useful and the one that states
\* "S/. 450.00" is useful.
C18_CostExamples ==
    (judge.pc = "returned" /\ judge.qtype = "costos") =>
        /\ judge.response = "el costo varía según el programa" => ~judge.verdict
        /\ judge.response = "el costo es S/. 450.00" => ~judge.verdict
        /\ judge.response
              = "El costo varía según el programa de estudios elegido por el alumno."
              => ~judge.verdict
        /\ judge.response
              = "El costo de la matrícula es S/. 450.00 y se paga en tesorería."
              => judge.verdict

\* C18 witness: "el costo es S/. 450.00" judged for costos and rejected.
C18_Witness ==
    /\ judge.pc = "returned"
    /\ judge.qtype = "costos"
    /\ judge.response = "el costo es S/. 450.00"
    /\ Len(judge.response) < 50
    /\ ~judge.verdict

\* C19 as stated: for the label fechas "las fechas se publicarán pronto" is
\* not useful and "el plazo vence el 15 de marzo" is useful.
C19_ExamplesAsStated ==
    (judge.pc = "returned" /\ judge.qtype = "fechas") =>
        /\ judge.response = "las fechas se publicarán pronto" => ~judge.verdict
        /\ judge.response = "el plazo vence el 15 de marzo" => judge.verdict

\* C19: for the label fechas both "las fechas se publicarán pronto" and
\* "el plazo vence el 15 de marzo" are not useful, each being shorter than
\* 50 characters; of two responses of at least 50 characters, the one
\* without a digit or a month is not useful and the one that states
\* "el 15 de marzo" is useful.
C19_DateExamples ==
    (judge.pc = "returned" /\ judge.qtype = "fechas") =>
        /\ judge.response = "las fechas se publicarán pronto" => ~judge.verdict
        /\ judge.response = "el plazo vence el 15 de marzo" => ~judge.verdict
        /\ judge.response
              = "Las fechas se publicarán pronto en la página web del instituto."
              => ~judge.verdict
        /\ judge.response
              = "El plazo de inscripción vence el 15 de marzo para todos los programas."
              => judge.verdict

\* C19 witness: "el plazo vence el 15 de marzo" judged for fechas and
\* rejected.
C19_Witness ==
    /\ judge.pc = "returned"
    /\ judge.qtype = "fechas"
    /\ judge.response = "el plazo vence el 15 de marzo"
    /\ Len(judge.response) < 50
    /\ ~judge.verdict

(***************************************************************************)
(* The document context of each provider call.                             *)
(***************************************************************************)
ContextInit ==
    /\ ManagerInit
    /\ OPENROUTER_API_KEY = "sk-or-key"
    /\ GEMINI_API_KEY = "AIza-key"
    /\ cls = ClsIdle
    /\ judge = JudgeIdle
    /\ chat = ChatIdle
    /\ race = RaceIdle
    /\ ServicesIdle

ContextNext ==
    \/ \E m \in Messages, pdf \in LongPdfContexts, web \in WebContexts,
             hist \in Histories :
          GenerateResponse(m, pdf, web, hist) /\ UNCHANGED <<cls, judge, chat, race, services>>
    \/ \E o \in OpenRouterOutcomes : OpenRouterCall(o) /\ UNCHANGED <<cls, judge, chat, race, services>>
    \/ AfterOpenRouter /\ UNCHANGED <<cls, judge, chat, race, services>>
    \/ \E o \in GeminiOutcomes : GeminiCall(o) /\ UNCHANGED <<cls, judge, chat, race, services>>
    \/ AfterGemini /\ UNCHANGED <<cls, judge, chat, race, services>>

ContextSpec == ContextInit /\ [][ContextNext]_vars

\* s is the first n characters of t
IsPrefix(s, n, t) ==
    /\ Len(s) = n
    /\ n <= Len(t)
    /\ s \o SubSeq(t, n + 1, Len(t)) = t

\* C20: in every OpenRouter call of a request the document context of the
\* prompt is the first min(len, 200000) characters of pdf_context; in every
\* Gemini call it is the whole pdf_context.
C20_ContextPerProvider ==
    \A i \in 1..Len(calls) :
        IF calls[i].provider = "openrouter"
        THEN IsPrefix(calls[i].context,
                      IF Len(pdf_context) < 200000 THEN Len(pdf_context) ELSE 200000,
                      pdf_context)
        ELSE calls[i].context = pdf_context

\* C20 witness: a request with a context of more than 200000 characters
\* that called OpenRouter with 200000 of them and Gemini with all.
C20_Witness ==
    /\ Len(pdf_context) > 200000
    /\ \E i \in 1..Len(calls) :
          calls[i].provider = "openrouter" /\ Len(calls[i].context) = 200000
    /\ \E i \in 1..Len(calls) :
          calls[i].provider = "gemini" /\ Len(calls[i].context) = Len(pdf_context)

(***************************************************************************)
(* POST /api/chat.                                                         *)
(***************************************************************************)
\* the endpoint returns before generate_response: jsonify({...}), code
Rejected(auth, data, code, error) ==
    [pc |-> "done", auth |-> auth, data |-> data, generated |-> FALSE, code |-> code,
     error |-> error, response |-> None, row_number |-> 0, sheets |-> <<>>]

\* chat() from its entry to the call of generate_response; data['message']
\* on a list raises TypeError, which the `except Exception` of the handler
\* turns into the answer 500
ChatRequest(auth, data, pdf, web) ==
    /\ chat.pc \in {"idle", "done"}
    /\ pc \in {"idle", "done"}
    /\ IF ~auth
       THEN chat' = Rejected(auth, data, 401, "not_authenticated") /\ UNCHANGED manager
       ELSE IF ~data.body \/ ~HasMessage(data)
       THEN /\ chat' = Rejected(auth, data, 400, "No se proporcionó un mensaje")
            /\ UNCHANGED manager
       ELSE IF data.json = "array"
       THEN /\ chat' = Rejected(auth, data, 500, "Error interno del servidor")
            /\ UNCHANGED manager
       ELSE IF data.message.type # "str"
       THEN /\ chat' = Rejected(auth, data, 400, "El mensaje debe ser texto")
            /\ UNCHANGED manager
       ELSE IF Sanitized[data.message.s] = ""
       THEN /\ chat' = Rejected(auth, data, 400, "El mensaje está vacío")
            /\ UNCHANGED manager
       ELSE IF Len(Sanitized[data.message.s]) > MAX_MESSAGE_LENGTH
       THEN /\ chat' = Rejected(auth, data, 400, "El mensaje excede el límite")
            /\ UNCHANGED manager
       ELSE /\ chat' = [pc |-> "generating", auth |-> auth, data |-> data,
                        generated |-> TRUE, code |-> 0, error |-> "",
                        response |-> None, row_number |-> 0, sheets |-> <<>>]
            /\ GenerateResponse(Sanitized[data.message.s], pdf, web,
                                HistoryOf(IF data.history.type = "list"
                                          THEN data.history.turns ELSE <<>>))

\* `row_number_input and int(row_number_input) > 0`: the truth value, or
\* raises = TRUE where int() raises
RowNumberTest(j) ==
    IF ~JTruthy(j) THEN [raises |-> FALSE, positive |-> FALSE, n |-> 0]
    ELSE IF ~IntOf(j).ok THEN [raises |-> TRUE, positive |-> FALSE, n |-> 0]
    ELSE [raises |-> FALSE, positive |-> IntOf(j).n > 0, n |-> IntOf(j).n]

\* chat() after generate_response returned: the fallback message, or the
\* write to the sheet, and the JSON response
ChatFinish(logged) ==
    /\ chat.pc = "generating"
    /\ pc = "done"
    /\ LET t == RowNumberTest(chat.data.row_number)
       IN  IF raised \/ t.raises
           THEN chat' = [chat EXCEPT !.pc = "done", !.code = 500,
                                     !.error = "Error interno del servidor"]
           ELSE IF result = None
           THEN chat' = [chat EXCEPT !.pc = "done", !.code = 200,
                                     !.response = FallbackMessage,
                                     !.row_number = IF t.positive THEN t.n ELSE 0]
           ELSE IF t.positive
           THEN chat' = [chat EXCEPT !.pc = "done", !.code = 200,
                                     !.response = result,
                                     !.row_number = t.n,
                                     !.sheets = <<[op |-> "update_consultation",
                                                   row |-> t.n]>>]
           ELSE chat' = [chat EXCEPT !.pc = "done", !.code = 200,
                                     !.response = result,
                                     !.row_number = logged,
                                     !.sheets = <<[op |-> "log_consultation",
                                                   row |-> logged]>>]
    /\ UNCHANGED manager

ChatInit ==
    /\ ManagerInit
    /\ cls = ClsIdle
    /\ judge = JudgeIdle
    /\ chat = ChatIdle
    /\ race = RaceIdle
    /\ ServicesIdle

ChatNext ==
    \/ \E auth \in BOOLEAN, data \in ChatBodies, pdf \in PdfContexts,
             web \in WebContexts :
          ChatRequest(auth, data, pdf, web) /\ UNCHANGED <<cls, judge, race, services>>
    \/ \E o \in OpenRouterOutcomes : OpenRouterCall(o) /\ UNCHANGED <<cls, judge, chat, race, services>>
    \/ AfterOpenRouter /\ UNCHANGED <<cls, judge, chat, race, services>>
    \/ \E o \in GeminiOutcomes : GeminiCall(o) /\ UNCHANGED <<cls, judge, chat, race, services>>
    \/ AfterGemini /\ UNCHANGED <<cls, judge, chat, race, services>>
    \/ \E logged \in LogResults : ChatFinish(logged) /\ UNCHANGED <<cls, judge, race, services>>

ChatSpec == ChatInit /\ [][ChatNext]_vars

\* the request has ended and generate_response was called in it
ChatAnswered == chat.pc = "done" /\ chat.generated

\* the request carried a row_number greater than 0
CarriedRowNumber ==
    LET j == chat.data.row_number
    IN  \/ j.type = "int" /\ j.n > 0
        \/ j.type = "str" /\ IntOf(j).ok /\ IntOf(j).n > 0

\* C11: in the chat endpoint, when generate_response returns None neither
\* log_consultation nor update_consultation is called and the user gets the
\* technical-difficulty message; when it returns a response exactly one of
\* them is called, update_consultation iff the request carried row_number > 0.
C11_PersistOnlyAfterResponse ==
    ChatAnswered =>
        IF result = None
        THEN chat.sheets = <<>> /\ chat.response = FallbackMessage
        ELSE /\ Len(chat.sheets) = 1
             /\ chat.sheets[1].op = "update_consultation" <=> CarriedRowNumber

\* the request that ended came from an authenticated server and carried a
\* message that is a string, non-empty after sanitization and at most
\* MAX_MESSAGE_LENGTH characters long
ValidRequest ==
    /\ chat.auth
    /\ chat.data.json = "object"
    /\ chat.data.message.type = "str"
    /\ Sanitized[chat.data.message.s] # ""
    /\ Len(Sanitized[chat.data.message.s]) <= MAX_MESSAGE_LENGTH

\* C33: the chat endpoint invokes generate_response (and any spreadsheet
\* write) only for an authenticated server and a message that is a string,
\* non-empty after sanitization and at most 2000 characters long; every
\* other request is answered with 401 or 400 and causes no provider call
\* and no spreadsheet write.
C33_OnlyValidRequestsServed ==
    chat.pc = "done" =>
        /\ chat.generated => ValidRequest
        /\ ~ValidRequest =>
              /\ chat.code \in {400, 401}
              /\ ~chat.generated
              /\ chat.sheets = <<>>

(***************************************************************************)
(* The prompt of each provider call.                                       *)
(***************************************************************************)
PromptInit ==
    /\ ManagerInit
    /\ OPENROUTER_API_KEY = "sk-or-key"
    /\ GEMINI_API_KEY = "AIza-key"
    /\ cls = ClsIdle
    /\ judge = JudgeIdle
    /\ chat = ChatIdle
    /\ race = RaceIdle
    /\ ServicesIdle

PromptNext ==
    \/ \E m \in Messages, pdf \in PdfContexts, web \in LongWebContexts,
             hist \in PromptHistories :
          GenerateResponse(m, pdf, web, hist) /\ UNCHANGED <<cls, judge, chat, race, services>>
    \/ \E o \in OpenRouterOutcomes : OpenRouterCall(o) /\ UNCHANGED <<cls, judge, chat, race, services>>
    \/ AfterOpenRouter /\ UNCHANGED <<cls, judge, chat, race, services>>
    \/ \E o \in GeminiOutcomes : GeminiCall(o) /\ UNCHANGED <<cls, judge, chat, race, services>>
    \/ AfterGemini /\ UNCHANGED <<cls, judge, chat, race, services>>

PromptSpec == PromptInit /\ [][PromptNext]_vars

\* the turns of the history of the request, none when it is absent
HistoryTurns == IF conversation_history.present THEN conversation_history.turns ELSE <<>>

\* C21: in the prompt of every call, of either provider, the web context is
\* the first min(len, 20000) characters of web_context and the history is
\* the last two turns of the history, or the placeholder when the history
\* is empty or absent; prompts of the same provider in a request are equal,
\* and building them leaves the arguments of the request as they were.
C21_PromptTruncation ==
    \A i \in 1..Len(calls) :
        LET p == calls[i].prompt
            n == Len(HistoryTurns)
        IN  /\ IsPrefix(p.web,
                        IF Len(web_context) < 20000 THEN Len(web_context) ELSE 20000,
                        web_context)
            /\ IF n = 0
               THEN p.history.placeholder = "Inicio" /\ p.history.turns = <<>>
               ELSE /\ p.history.placeholder = ""
                    /\ Len(p.history.turns) = (IF n < 2 THEN n ELSE 2)
                    /\ \A k \in 1..Len(p.history.turns) :
                          p.history.turns[k]
                              = HistoryTurns[n - Len(p.history.turns) + k]
            /\ p.message = user_message
            /\ p.pdf = calls[i].context
            /\ \A j \in 1..Len(calls) :
                  calls[j].provider = calls[i].provider => calls[j].prompt = p

\* C21 witness: a request with a web context of more than 20000 characters
\* and a history of three turns called both providers.
C21_Witness ==
    /\ Len(web_context) > 20000
    /\ Len(HistoryTurns) = 3
    /\ \E i \in 1..Len(calls) :
          /\ calls[i].provider = "openrouter"
          /\ Len(calls[i].prompt.web) = 20000
          /\ calls[i].prompt.history.turns = <<"assistant: buenos dias", "user: gracias">>
    /\ \E i \in 1..Len(calls) :
          /\ calls[i].provider = "gemini"
          /\ Len(calls[i].prompt.web) = 20000

(***************************************************************************)
(* _handle_gemini_error run by two requests on the shared AIManager, one   *)
(* step per read or write of the fields of the manager.                    *)
(***************************************************************************)
\* a thread is between the first and the last access of the handler
InHandler(t) == race.pc[t] \notin {"idle", "done"}

\* the except clause of _call_gemini calls the handler with a throttling
\* error
RaceEnter(t) ==
    /\ race.pc[t] \in {"idle", "done"}
    /\ throttled_total < MaxThrottle
    /\ race' = [race EXCEPT !.pc[t] = "load",
                            !.overlapped = @ \/ \E u \in Threads \ {t} : InHandler(u)]
    /\ throttled_total' = throttled_total + 1
    /\ UNCHANGED <<config, limiter, now, request, last_429_at, last_error,
                   cls, judge, chat, services>>

\* a store that adds two
RaceStore_twice(t) ==
    /\ race.pc[t] = "store"
    /\ gemini_consecutive_429' = race.loaded[t] + 2
    /\ race' = [race EXCEPT !.pc[t] = "backoff"]
    /\ UNCHANGED <<config, gemini_cooldown_until, now, request, observed,
                   cls, judge, chat, services>>

\* `self.gemini_consecutive_429 += 1`: the load of the field
RaceLoad(t) ==
    /\ race.pc[t] = "load"
    /\ race' = [race EXCEPT !.pc[t] = "store", !.loaded[t] = gemini_consecutive_429]
    /\ UNCHANGED <<manager, cls, judge, chat, services>>

\* `self.gemini_consecutive_429 += 1`: the store of the sum
RaceStore(t) ==
    /\ race.pc[t] = "store"
    /\ gemini_consecutive_429' = race.loaded[t] + 1
    /\ race' = [race EXCEPT !.pc[t] = "backoff"]
    /\ UNCHANGED <<config, gemini_cooldown_until, now, request, observed,
                   cls, judge, chat, services>>

\* backoff = min(self.GEMINI_COOLDOWN * (2 ** (self.gemini_consecutive_429 - 1)), 600)
RaceBackoff(t) ==
    /\ race.pc[t] = "backoff"
    /\ race' = [race EXCEPT !.pc[t] = "set", !.backoff[t] = Backoff(gemini_consecutive_429)]
    /\ UNCHANGED <<manager, cls, judge, chat, services>>

\* self.gemini_cooldown_until = time.time() + backoff
RaceSet(t) ==
    /\ race.pc[t] = "set"
    /\ gemini_cooldown_until' = now + race.backoff[t]
    /\ last_429_at' = now
    /\ race' = [race EXCEPT !.pc[t] = "done"]
    /\ UNCHANGED <<config, gemini_consecutive_429, now, request, last_error,
                   throttled_total, cls, judge, chat, services>>

RaceInit ==
    /\ ManagerInit
    /\ OPENROUTER_API_KEY = "sk-or-key"
    /\ GEMINI_API_KEY = "AIza-key"
    /\ cls = ClsIdle
    /\ judge = JudgeIdle
    /\ chat = ChatIdle
    /\ race = RaceIdle
    /\ ServicesIdle

RaceNext ==
    \/ \E t \in Threads : RaceEnter(t)
    \/ \E t \in Threads : RaceLoad(t)
    \/ \E t \in Threads : RaceStore(t)
    \/ \E t \in Threads : RaceBackoff(t)
    \/ \E t \in Threads : RaceSet(t)

RaceSpec == RaceInit /\ [][RaceNext]_vars

\* no thread is inside the handler
Quiescent == \A t \in Threads : ~InHandler(t)

\* C30: the handler's read-modify-write is unprotected: when every handler
\* has finished, the counter is at most the number of throttling errors
\* handled, and it is that number, with the cooldown of that many errors,
\* whenever no two handlers ran at the same time; a smaller counter, a lost
\* update, can only follow handlers that overlapped.
C30_LostUpdateOnlyWhenConcurrent ==
    Quiescent =>
        /\ gemini_consecutive_429 <= throttled_total
        /\ throttled_total >= 1 => gemini_consecutive_429 >= 1
        /\ ~race.overlapped =>
              /\ gemini_consecutive_429 = throttled_total
              /\ throttled_total >= 1 =>
                    gemini_cooldown_until = last_429_at +
                        (IF 60 * (2 ^ (throttled_total - 1)) < 600
                         THEN 60 * (2 ^ (throttled_total - 1)) ELSE 600)

\* C30 witness: two handlers overlapped on a fresh manager at the same
\* second: the counter is 1 instead of 2 and the cooldown 60 s instead of
\* 120 s.
C30_Witness ==
    /\ Quiescent
    /\ race.overlapped
    /\ throttled_total = 2
    /\ gemini_consecutive_429 = 1
    /\ gemini_cooldown_until = now + 60


(***************************************************************************)
(* The fallback orchestrator as specified (six steps), replayed on the     *)
(* outcomes the provider calls of the request had.                         *)
(***************************************************************************)
\* step 1 of the algorithm: the label of the message of the request
SpecLabel == QueryTypeOf[user_message]

\* a position of the algorithm: about to call a model, about to consult the
\* rate limiter, returned a value, or no position (the log is not a run)
SpecPosition(at, provider, index, value) ==
    [at |-> at, provider |-> provider, index |-> index, value |-> value]

\* the position of the algorithm once the call it was about to make had the
\* outcome c: the chain runner returns the first useful response (steps 3
\* and 5), goes to the next model otherwise, and when the models are
\* exhausted the cheap chain leads to the rate limiter (step 4) and the
\* massive-context chain to the return of absent (step 6). The rate limiter
\* permitting the call, the next call is the first massive-context model.
SpecAdvance(p, c) ==
    LET q == IF p.at = "gate" THEN SpecPosition("call", "gemini", 1, None) ELSE p
    IN  IF q.at # "call" \/ c.provider # q.provider
            \/ c.model # ModelsOf(q.provider)[q.index]
        THEN SpecPosition("none", "", 0, None)
        ELSE IF c.useful
        THEN SpecPosition("return", "", 0, c.text)
        ELSE IF q.index < Len(ModelsOf(q.provider))
        THEN SpecPosition("call", q.provider, q.index + 1, None)
        ELSE IF q.provider = "openrouter"
        THEN SpecPosition("gate", "", 0, None)
        ELSE SpecPosition("return", "", 0, None)

\* the position of the algorithm after the calls of the log, step 2 being
\* the first model of the cheap chain
RECURSIVE SpecAfter(_)
SpecAfter(log) ==
    IF log = <<>>
    THEN SpecPosition("call", "openrouter", 1, None)
    ELSE SpecAdvance(SpecAfter(SubSeq(log, 1, Len(log) - 1)), log[Len(log)])

\* the verdict of the judge, with the label of step 1, on what a call returned
SpecVerdict(response) == Truthy(response) /\ Useful[response, SpecLabel]

\* C31: generate_response as coded and the six-step algorithm make the same
\* provider calls in the same order and return the same result, for every
\* outcome of every call and every state of the rate limiter: each call of
\* the code is the call the algorithm is about to make, and the label its
\* outcome is judged with is the label of step 1; the code enters the
\* Gemini chain exactly where the algorithm consults the rate limiter and
\* is permitted; and the code returns where the algorithm returns, with the same value (absent where
\* the rate limiter refuses or the Gemini chain is exhausted).
C31_SameCallsAndResult ==
    [][ LET p == SpecAfter(calls) IN
        /\ CallStep =>
              LET c == calls'[Len(calls')]
                  q == SpecAfter(calls')
              IN  /\ p.at \in {"call", "gate"}
                  /\ q.at # "none"
                  /\ query_type = SpecLabel
                  /\ c.useful = SpecVerdict(c.text)
        /\ (pc = "after_openrouter" /\ pc' = "gemini") =>
              p.at = "gate" /\ CanCallGemini
        /\ (pc # "done" /\ pc' = "done" /\ ~raised') =>
              \/ p.at = "return" /\ result' = p.value
              \/ p.at = "gate" /\ ~CanCallGemini /\ result' = None
        /\ (pc \notin {"idle", "done"} /\ ~CallStep /\ pc' # "done") =>
              \/ pc = "after_openrouter" /\ pc' = "gemini"
              \/ UNCHANGED <<pc, calls>>
      ]_vars

\* C31 witness: the request went through every step of the algorithm: the
\* three OpenRouter models and, the rate limiter permitting, the three
\* Gemini models gave nothing useful, and the final `return or_response`
\* returned absent.
C31_Witness ==
    /\ Returned
    /\ gate = "open"
    /\ Len(calls) = Len(OPENROUTER_MODELS) + Len(GEMINI_MODELS)
    /\ SpecAfter(calls) = SpecPosition("return", "", 0, None)
    /\ result = None


(***************************************************************************)
(* Termination of generate_response: every provider call returns or fails, *)
(* so a request in progress keeps taking its next step.                    *)
(***************************************************************************)
\* a step of the request in progress: a provider call, or the code after a
\* chain
RequestStep ==
    \/ \E o \in OpenRouterOutcomes : OpenRouterCall(o) /\ UNCHANGED <<cls, judge, chat, race, services>>
    \/ AfterOpenRouter /\ UNCHANGED <<cls, judge, chat, race, services>>
    \/ \E o \in GeminiOutcomes : GeminiCall(o) /\ UNCHANGED <<cls, judge, chat, race, services>>
    \/ AfterGemini /\ UNCHANGED <<cls, judge, chat, race, services>>

\* the manager with blocking calls that all end
LiveSpec == Init /\ [][Next]_vars /\ WF_vars(RequestStep)

\* a request is inside generate_response
InRequest == pc \notin {"idle", "done"}

\* C32: every generate_response terminates, after at most
\* |OPENROUTER_MODELS| + |GEMINI_MODELS| provider calls, and no model is
\* called more than once in a request.
C32_TerminatesWithinAllModels ==
    /\ [](/\ Len(calls) <= Len(OPENROUTER_MODELS) + Len(GEMINI_MODELS)
          /\ \A i, j \in 1..Len(calls) : calls[i].model = calls[j].model => i = j)
    /\ (InRequest ~> pc = "done")

\* C32 witness: a request that returned after calling every model of both
\* chains.
C32_Witness ==
    /\ pc = "done"
    /\ Len(calls) = Len(OPENROUTER_MODELS) + Len(GEMINI_MODELS)
    /\ \A i \in 1..Len(OPENROUTER_MODELS) : calls[i].model = OPENROUTER_MODELS[i]
    /\ \A i \in 1..Len(GEMINI_MODELS) :
          calls[Len(OPENROUTER_MODELS) + i].model = GEMINI_MODELS[i]


(***************************************************************************)
(* GoogleSheetsManager: the methods that write consultations.              *)
(***************************************************************************)
\* reconnect() / __init__: with credentials the service is built and
\* _ensure_headers writes the headers when row 1 lacks them
SheetsReconnect(creds) ==
    /\ creds
    /\ sheets' = [sheets EXCEPT !.updating = NoRow, !.service = TRUE,
                                !.rows = IF sheets.rows = <<>> THEN <<HeaderRow>> ELSE @,
                                !.returned = 1]
    /\ UNCHANGED <<manager, cls, judge, chat, race, drive, scraper>>

\* GoogleSheetsManager.update_consultation; write_ok: the update call
\* answered. The value returned is kept as a number (True is 1, False is 0).
UpdateConsultation(n, q, r, qtype, status, write_ok) ==
    /\ sheets' =
          IF ~sheets.service \/ n <= 0
          THEN [sheets EXCEPT !.updating = n, !.returned = 0]
          ELSE IF ~write_ok
          THEN [sheets EXCEPT !.updating = n, !.returned = 0]
          ELSE [sheets EXCEPT !.updating = n, !.returned = 1,
                              !.rows = UpdatedRows(@, n, sheets.clock, q, r, qtype, status)]
    /\ UNCHANGED <<manager, cls, judge, chat, race, drive, scraper>>

\* GoogleSheetsManager.log_consultation, with its calls of
\* find_recent_duplicate and update_consultation; read_ok, write_ok: the
\* calls of the API answered
LogConsultation(q, r, qtype, status, read_ok, write_ok) ==
    /\ LET duplicate_row == FindRecentDuplicate(sheets.rows, sheets.clock, q, read_ok)
           row == SheetRow(sheets.clock, QueryLimited(q), ResponseLimited(r), qtype,
                           status, "", "", "")
       IN  IF ~sheets.service
           THEN sheets' = [sheets EXCEPT !.updating = NoRow, !.returned = 0]
           ELSE IF duplicate_row > 0
           THEN sheets' =
                   IF write_ok
                   THEN [sheets EXCEPT !.updating = NoRow, !.returned = duplicate_row,
                                       !.rows = UpdatedRows(@, duplicate_row, sheets.clock,
                                                            q, r, qtype, status)]
                   ELSE [sheets EXCEPT !.updating = NoRow, !.returned = 0]
           ELSE IF ~write_ok
           THEN sheets' = [sheets EXCEPT !.updating = NoRow, !.returned = 0]
           ELSE /\ Len(sheets.rows) < MaxRows
                /\ sheets' = [sheets EXCEPT !.updating = NoRow, !.returned = AppendedRow[Len(sheets.rows) + 1],
                                            !.rows = Append(@, row)]
    /\ UNCHANGED <<manager, cls, judge, chat, race, drive, scraper>>

\* GoogleSheetsManager.update_feedback: columns G and H of the row (the
\* texts shown for like and dislike, without their pictograms)
UpdateFeedback(n, feedback_type, comment) ==
    /\ sheets' =
          IF ~sheets.service \/ n <= 0
          THEN [sheets EXCEPT !.updating = NoRow, !.returned = 0]
          ELSE [sheets EXCEPT !.updating = NoRow, !.returned = 1,
                              !.rows[n].feedback =
                                  IF feedback_type = "like" THEN "Util"
                                  ELSE IF feedback_type = "dislike" THEN "No util"
                                  ELSE "",
                              !.rows[n].comment = comment]
    /\ UNCHANGED <<manager, cls, judge, chat, race, drive, scraper>>

\* time passes
SheetTick(d) ==
    /\ sheets.clock + d <= MaxSheetClock
    /\ sheets' = [sheets EXCEPT !.updating = NoRow, !.clock = @ + d]
    /\ UNCHANGED <<manager, cls, judge, chat, race, drive, scraper>>

\* the row numbers passed by the callers: negative, none, and the numbers
\* log_consultation has returned
SheetRowNumbers == {-1, 0} \cup (2..MaxRows)

\* the row numbers passed to update_feedback: none, and the first
\* consultation
FeedbackRowNumbers == {0, 2}

\* seconds by which the clock of the spreadsheet advances
SheetTickSteps == {40}

SheetInit ==
    /\ ManagerInit
    /\ cls = ClsIdle
    /\ judge = JudgeIdle
    /\ chat = ChatIdle
    /\ race = RaceIdle
    /\ sheets \in {SheetsIdle,
                    [SheetsIdle EXCEPT !.service = TRUE, !.rows = <<HeaderRow>>]}
    /\ drive = DriveIdle
    /\ scraper = ScraperIdle

SheetNext ==
    \/ SheetsReconnect(TRUE)
    \/ \E n \in SheetRowNumbers, q \in SheetQueries, r \in SheetResponses,
             write_ok \in BOOLEAN :
          /\ n <= Len(sheets.rows)
          /\ UpdateConsultation(n, q, r, "general", "completado", write_ok)
    \/ \E q \in SheetQueries, r \in SheetResponses, read_ok \in BOOLEAN,
             write_ok \in BOOLEAN :
          LogConsultation(q, r, "general", "completado", read_ok, write_ok)
    \/ \E n \in FeedbackRowNumbers, f \in {"like", "none"} :
          n <= Len(sheets.rows) /\ UpdateFeedback(n, f, "")
    \/ \E d \in SheetTickSteps : SheetTick(d)

SheetSpec == SheetInit /\ [][SheetNext]_vars


\* rows of the spreadsheet, the header row included, in the runs that look
\* at what update_consultation writes
MaxFrameRows == 3

\* the same methods on a spreadsheet of at most MaxFrameRows rows
FrameNext ==
    \/ SheetsReconnect(TRUE)
    \/ \E n \in SheetRowNumbers, q \in SheetQueries, r \in SheetResponses,
             write_ok \in BOOLEAN :
          /\ n <= Len(sheets.rows)
          /\ UpdateConsultation(n, q, r, "general", "completado", write_ok)
    \/ \E q \in SheetQueries, r \in SheetResponses, read_ok \in BOOLEAN,
             write_ok \in BOOLEAN :
          /\ Len(sheets.rows) < MaxFrameRows
          /\ LogConsultation(q, r, "general", "completado", read_ok, write_ok)
    \/ \E n \in FeedbackRowNumbers, f \in {"like", "none"} :
          n <= Len(sheets.rows) /\ UpdateFeedback(n, f, "")
    \/ \E d \in SheetTickSteps : SheetTick(d)

FrameSpec == SheetInit /\ [][FrameNext]_vars

\* the rows written in the last 60 s whose query equals q once case and
\* surrounding blanks are set aside
RecentDuplicates(q) ==
    { i \in 2..Len(sheets.rows) :
        /\ sheets.rows[i].stamp >= 0
        /\ sheets.clock - sheets.rows[i].stamp <= DUPLICATE_WINDOW
        /\ NormalQuery[sheets.rows[i].query] = NormalQuery[q] }

\* C34: log_consultation never creates a second row for the same query
\* within 60 seconds: when a row with the same query (case and blanks
\* normalized) was written in the last 60 s, such a row is updated, its
\* number is returned and the number of rows is unchanged; otherwise exactly
\* one row is appended. (The calls of the API answering.)
C34_NoSecondRowWithinWindow ==
    [][ \A q \in SheetQueries, r \in SheetResponses :
          (sheets.service /\ LogConsultation(q, r, "general", "completado", TRUE, TRUE)) =>
              IF RecentDuplicates(q) # {}
              THEN /\ sheets'.returned \in RecentDuplicates(q)
                   /\ Len(sheets'.rows) = Len(sheets.rows)
                   /\ sheets'.rows[sheets'.returned].stamp = sheets.clock
              ELSE /\ Len(sheets'.rows) = Len(sheets.rows) + 1
                   /\ sheets'.returned = Len(sheets'.rows)
      ]_vars

\* C35: update_consultation rewrites only columns A to F of the given row:
\* columns G to I of that row and every other row are unchanged, and the
\* number of rows too; with row_number <= 0 or without a connected service
\* nothing is written and False is returned.
C35_UpdateWritesOnlyAToF ==
    [][ sheets'.updating # NoRow =>
          LET n == sheets'.updating IN
          /\ Len(sheets'.rows) = Len(sheets.rows)
          /\ \A i \in 1..Len(sheets.rows) :
                /\ i # n => sheets'.rows[i] = sheets.rows[i]
                /\ sheets'.rows[i].feedback = sheets.rows[i].feedback
                /\ sheets'.rows[i].comment = sheets.rows[i].comment
                /\ sheets'.rows[i].id = sheets.rows[i].id
          /\ (n <= 0 \/ ~sheets.service) =>
                sheets'.rows = sheets.rows /\ sheets'.returned = 0
          /\ sheets'.returned = 0 => sheets'.rows = sheets.rows
          /\ sheets'.returned # 0 =>
                /\ sheets'.rows[n].stamp = sheets.clock
                /\ sheets'.rows[n].query \in {QueryLimited(q) : q \in SheetQueries}
                /\ sheets'.rows[n].response \in {ResponseLimited(r) : r \in SheetResponses}
                /\ sheets'.rows[n].qtype = "general"
                /\ sheets'.rows[n].status = "completado"
      ]_vars

\* C35 witness: the first consultation was rated and then rewritten by
\* update_consultation later than the row after it was written, and it
\* still holds the feedback.
C35_Witness ==
    /\ Len(sheets.rows) >= 3
    /\ sheets.rows[2].feedback = "Util"
    /\ sheets.rows[2].stamp > sheets.rows[3].stamp
    /\ sheets.rows[2].query # sheets.rows[3].query
    /\ sheets.rows[2].stamp = sheets.clock
    /\ sheets.updating = 2
    /\ sheets.returned = 1


(***************************************************************************)
(* GoogleDriveManager: the combined text of the documents and its cache.   *)
(***************************************************************************)
\* the server starts: __init__ loads the cache file when there is one and
\* builds the service when there are credentials
DriveRestart(creds) ==
    /\ drive' = [drive EXCEPT
                   !.service = creds,
                   !.pdf_cache = IF drive.disk.exists THEN drive.disk.pdfs
                                 ELSE [f \in FileIds |-> NoEntry],
                   !.files_list_cache = <<>>,
                   !.files_list_cached_at = 0,
                   !.all_documents_text = IF drive.disk.exists THEN drive.disk.all_text
                                          ELSE "",
                   !.all_documents_cached_at = IF drive.disk.exists
                                               THEN drive.disk.all_cached_at ELSE 0,
                   !.last = [NoDriveCall EXCEPT !.op = "__init__"]]
    /\ UNCHANGED <<manager, cls, judge, chat, race, sheets, scraper>>

\* GoogleDriveManager.get_all_documents_text, with its calls of
\* list_pdf_files, download_pdf and _save_cache_to_disk
GetAllDocumentsText(force_refresh, creds, lo, ok_at) ==
    /\ IF AllDocumentsCached(drive, force_refresh)
       THEN drive' = [drive EXCEPT
                        !.last = [NoDriveCall EXCEPT
                                    !.op = "get_all_documents_text",
                                    !.force = force_refresh,
                                    !.ok = TRUE,
                                    !.returned = drive.all_documents_text]]
       ELSE LET l == ListPdfFiles(drive, force_refresh, creds, lo)
                listed == [drive EXCEPT !.service = l.service,
                                        !.files_list_cache = l.files_list_cache,
                                        !.files_list_cached_at = l.files_list_cached_at]
                a == DownloadAll(listed, l.files, 1, creds, ok_at)
                text == JoinTexts(a.texts)
            IN  drive' = [listed EXCEPT
                            !.pdf_cache = a.pdf_cache,
                            !.all_documents_text = text,
                            !.all_documents_cached_at = drive.clock,
                            !.disk = [exists |-> TRUE, pdfs |-> a.pdf_cache,
                                      all_text |-> text, all_cached_at |-> drive.clock],
                            !.last = [NoDriveCall EXCEPT
                                        !.op = "get_all_documents_text",
                                        !.force = force_refresh,
                                        !.calls = l.calls + a.calls,
                                        !.ok = ~l.failed /\ ~a.failed,
                                        !.failed = l.failed \/ a.failed,
                                        !.returned = text]]
    /\ UNCHANGED <<manager, cls, judge, chat, race, sheets, scraper>>

\* a call of GoogleDriveManager.download_pdf
DownloadPdfCall(file_id, modified_time, creds, ok_at) ==
    /\ LET r == DownloadPdf(drive, file_id, modified_time, creds, ok_at)
       IN  drive' = [drive EXCEPT
                       !.service = r.service,
                       !.pdf_cache = r.pdf_cache,
                       !.last = [NoDriveCall EXCEPT
                                   !.op = "download_pdf",
                                   !.id = file_id,
                                   !.modified = modified_time,
                                   !.calls = r.calls,
                                   !.ok = r.ok,
                                   !.failed = r.calls = MAX_RETRIES /\ ~r.ok,
                                   !.returned = r.text]]
    /\ UNCHANGED <<manager, cls, judge, chat, race, sheets, scraper>>

\* time passes
DriveTick(d) ==
    /\ drive.clock + d <= MaxDriveClock
    /\ drive' = [drive EXCEPT !.clock = @ + d, !.last = [NoDriveCall EXCEPT !.op = "tick"]]
    /\ UNCHANGED <<manager, cls, judge, chat, race, sheets, scraper>>

\* seconds by which the clock of the document cache advances
DriveTickSteps == {900}

DriveInit ==
    /\ ManagerInit
    /\ cls = ClsIdle
    /\ judge = JudgeIdle
    /\ chat = ChatIdle
    /\ race = RaceIdle
    /\ sheets = SheetsIdle
    /\ drive \in {DriveIdle, [DriveIdle EXCEPT !.service = TRUE]}
    /\ scraper = ScraperIdle

DriveNext ==
    \/ \E creds \in BOOLEAN : DriveRestart(creds)
    \/ \E force_refresh \in BOOLEAN, creds \in BOOLEAN, lo \in ListOutcomes,
             ok_at \in [FileIds -> DownloadOutcomes] :
          GetAllDocumentsText(force_refresh, creds, lo, ok_at)
    \/ \E d \in DriveTickSteps : DriveTick(d)

DriveSpec == DriveInit /\ [][DriveNext]_vars


C37_FailedRefreshKeepsText ==
    [][ ( /\ drive'.last.op = "get_all_documents_text"
          /\ drive'.last.failed
          /\ drive.all_documents_text # "" )
        => drive'.all_documents_text # "" ]_vars

(***************************************************************************)
(* GoogleDriveManager.download_pdf called on its own.                      *)
(***************************************************************************)
\* the cache file a run of the server has left: the first version of the file
SavedCache ==
    LET m == "2025-01-10T08:00:00Z"
        pdfs == [f \in FileIds |-> CacheEntry(RemoteText[m], m, 0)]
    IN  [exists |-> TRUE, pdfs |-> pdfs,
         all_text |-> DocumentBlock("reglamento.pdf", RemoteText[m]),
         all_cached_at |-> 0]

\* the manager __init__ builds over the cache file disk
DriveStarted(disk, creds) ==
    [DriveIdle EXCEPT
       !.service = creds,
       !.disk = disk,
       !.pdf_cache = IF disk.exists THEN disk.pdfs ELSE @,
       !.all_documents_text = IF disk.exists THEN disk.all_text ELSE @,
       !.all_documents_cached_at = IF disk.exists THEN disk.all_cached_at ELSE @]

PdfInit ==
    /\ ManagerInit
    /\ cls = ClsIdle
    /\ judge = JudgeIdle
    /\ chat = ChatIdle
    /\ race = RaceIdle
    /\ sheets = SheetsIdle
    /\ drive \in { DriveStarted(disk, creds) :
                     disk \in {NoDisk, SavedCache}, creds \in BOOLEAN }
    /\ scraper = ScraperIdle

PdfNext ==
    \/ \E creds \in BOOLEAN : DriveRestart(creds)
    \/ \E file_id \in FileIds, modified_time \in FileVersions \cup {None},
             creds \in BOOLEAN, ok_at \in DownloadOutcomes :
          DownloadPdfCall(file_id, modified_time, creds, ok_at)
    \/ \E d \in DriveTickSteps : DriveTick(d)

PdfSpec == PdfInit /\ [][PdfNext]_vars

\* the cache answers the call: an entry of the file with the modified_time
\* of the call, which is not null
CacheAnswers(file_id, modified_time) ==
    /\ drive.pdf_cache[file_id].cached
    /\ modified_time # None
    /\ drive.pdf_cache[file_id].modified_time = modified_time

\* what the call does when the cache does not answer it: at most
\* MAX_RETRIES attempts; the text of the first success is stored and
\* returned; without a success the old cached text, or nothing when there
\* is none, is returned and the entry is left as it was
DownloadsOrFallsBack(file_id) ==
    LET l == drive'.last  old == drive.pdf_cache[file_id] IN
    /\ l.calls <= MAX_RETRIES
    /\ \/ /\ l.ok
          /\ l.calls >= 1
          /\ drive'.pdf_cache[file_id] =
                CacheEntry(l.returned, l.modified, drive.clock)
       \/ /\ ~l.ok
          /\ l.returned = IF old.cached THEN old.text ELSE None
          /\ drive'.pdf_cache = drive.pdf_cache

GetPageContent(url, force_refresh, fetch) ==
    /\ LET r == PageContent(scraper, url, force_refresh, fetch)
       IN  scraper' = [scraper EXCEPT
                         !.cache = r.cache,
                         !.cache_timestamps = r.cache_timestamps,
                         !.last = [op |-> "get_page_content", url |-> url,
                                   force |-> force_refresh, fetch |-> r.fetch,
                                   returned |-> r.returned]]
    /\ UNCHANGED <<manager, cls, judge, chat, race, sheets, drive>>

\* time passes
ScraperTick(d) ==
    /\ scraper.clock + d <= MaxScraperClock
    /\ scraper' = [scraper EXCEPT !.clock = @ + d,
                                  !.last = [NoScraperCall EXCEPT !.op = "tick"]]
    /\ UNCHANGED <<manager, cls, judge, chat, race, sheets, drive>>

\* seconds by which the clock of the web cache advances
ScraperTickSteps == {900}

ScraperInit ==
    /\ ManagerInit
    /\ cls = ClsIdle
    /\ judge = JudgeIdle
    /\ chat = ChatIdle
    /\ race = RaceIdle
    /\ sheets = SheetsIdle
    /\ drive = DriveIdle
    /\ scraper = ScraperIdle

ScraperNext ==
    \/ \E url \in Urls, force_refresh \in BOOLEAN, fetch \in PageFetches :
          GetPageContent(url, force_refresh, fetch)
    \/ \E d \in ScraperTickSteps : ScraperTick(d)

ScraperSpec == ScraperInit /\ [][ScraperNext]_vars

\* the cache has an entry of the url younger than CACHE_REFRESH_INTERVAL
FreshEntry(url) ==
    /\ scraper.cache_timestamps[url] # NoStamp
    /\ scraper.clock - scraper.cache_timestamps[url] < 1800

\* the call leaves the content and the timestamp of every url as they were
CacheUntouched ==
    /\ scraper'.cache = scraper.cache
    /\ scraper'.cache_timestamps = scraper.cache_timestamps

\* C39 as stated: get_page_content returns the cached content without
\* fetching when force_refresh is false and the entry of the url is younger
\* than CACHE_REFRESH_INTERVAL; a fetch that fails or yields no text leaves
\* the content and the timestamp of the url unchanged and returns absent,
\* also when an expired entry exists.
C39_AsStated ==
    [][ scraper'.last.op = "get_page_content" =>
          LET l == scraper'.last IN
          IF ~l.force /\ FreshEntry(l.url)
          THEN /\ l.fetch = "none"
               /\ l.returned = scraper.cache[l.url]
               /\ CacheUntouched
          ELSE l.fetch \in {"error", "no_main", "no_text"} =>
                  /\ CacheUntouched
                  /\ l.returned = None
      ]_vars

\* C39, amended: as stated, but a fetch that fails or finds no main content
\* returns absent, and a fetch that finds a main content without text
\* returns the empty text; neither returns the expired content.
C39_AbsentOrEmpty ==
    [][ scraper'.last.op = "get_page_content" =>
          LET l == scraper'.last IN
          IF ~l.force /\ FreshEntry(l.url)
          THEN /\ l.fetch = "none"
               /\ l.returned = scraper.cache[l.url]
               /\ CacheUntouched
          ELSE /\ l.fetch # "none"
               /\ l.fetch \in {"error", "no_main"} =>
                     CacheUntouched /\ l.returned = None
               /\ l.fetch = "no_text" =>
                     CacheUntouched /\ l.returned = ""
      ]_vars

\* a fetch has failed on a url with an expired entry, and absent was returned
C39_Witness ==
    /\ scraper.last.op = "get_page_content"
    /\ scraper.last.fetch = "error"
    /\ scraper.last.returned = None
    /\ scraper.cache[scraper.last.url] \in PageTexts
    /\ scraper.clock - scraper.cache_timestamps[scraper.last.url] >= CACHE_REFRESH_INTERVAL

====
